---- MODULE Spec2Model ----
(***************************************************************************)
(* A model of copeer: the planner (manifest reader, sequence detector),    *)
(* the disk manager, and the two-phase supervisor with its state, mapping  *)
(* and error logs, as implemented in src/copeer.py.                        *)
(*                                                                         *)
(* File names are sequences of one-character strings, so that the regular  *)
(* expression SEQUENCE_RE, the prefix sanitising and the tar-name          *)
(* formatting are computed rather than assumed.                            *)
(***************************************************************************)
EXTENDS Integers, Sequences, FiniteSets, TLC

\* ------------------------------------------------------------------------
\* Characters
\* ------------------------------------------------------------------------

Digits == {"0", "1", "2", "3", "4", "5", "6", "7", "8", "9"}

LowerLetters == {"a", "c", "d", "f", "g", "m", "o", "p", "r", "t", "v", "x", "y", "z"}

UpperLetters == {"D", "P", "X"}

IsDigit(c) == c \in Digits

IsAlnum(c) == c \in Digits \cup LowerLetters \cup UpperLetters

\* \w of the re module, restricted to the characters of the model.
IsWordChar(c) == IsAlnum(c) \/ c = "_"

IsSpace(c) == c = " "

DigitVal(c) ==
    CASE c = "0" -> 0 [] c = "1" -> 1 [] c = "2" -> 2 [] c = "3" -> 3
      [] c = "4" -> 4 [] c = "5" -> 5 [] c = "6" -> 6 [] c = "7" -> 7
      [] c = "8" -> 8 [] c = "9" -> 9

DigitChar(n) ==
    CASE n = 0 -> "0" [] n = 1 -> "1" [] n = 2 -> "2" [] n = 3 -> "3"
      [] n = 4 -> "4" [] n = 5 -> "5" [] n = 6 -> "6" [] n = 7 -> "7"
      [] n = 8 -> "8" [] n = 9 -> "9"

\* str.lower() on one character.
LowerChar(c) ==
    CASE c = "D" -> "d" [] c = "P" -> "p" [] c = "X" -> "x" [] OTHER -> c

\* The code point of a character: the order str comparison uses.
CharOrd(c) ==
    CASE c = " " -> 32 [] c = "-" -> 45 [] c = "." -> 46
      [] IsDigit(c) -> 48 + DigitVal(c)
      [] c = "D" -> 68 [] c = "P" -> 80 [] c = "X" -> 88
      [] c = "_" -> 95
      [] c = "a" -> 97 [] c = "c" -> 99 [] c = "d" -> 100 [] c = "f" -> 102
      [] c = "g" -> 103 [] c = "m" -> 109 [] c = "o" -> 111 [] c = "p" -> 112
      [] c = "r" -> 114 [] c = "t" -> 116 [] c = "v" -> 118 [] c = "x" -> 120
      [] c = "y" -> 121 [] c = "z" -> 122

Max(a, b) == IF a >= b THEN a ELSE b

Min(a, b) == IF a <= b THEN a ELSE b

\* s < t for two strings (lexicographic by code point).
RECURSIVE StrLess(_, _)
StrLess(s, t) ==
    IF t = <<>> THEN FALSE
    ELSE IF s = <<>> THEN TRUE
    ELSE IF CharOrd(Head(s)) # CharOrd(Head(t)) THEN CharOrd(Head(s)) < CharOrd(Head(t))
    ELSE StrLess(Tail(s), Tail(t))

LowerStr(s) == [i \in 1..Len(s) |-> LowerChar(s[i])]

\* int(s) for a string of decimal digits.
RECURSIVE ParseInt(_)
ParseInt(s) ==
    IF s = <<>> THEN 0
    ELSE 10 * ParseInt(SubSeq(s, 1, Len(s) - 1)) + DigitVal(s[Len(s)])

\* str(n) for n >= 0.
RECURSIVE IntToStr(_)
IntToStr(n) ==
    IF n < 10 THEN <<DigitChar(n)>>
    ELSE Append(IntToStr(n \div 10), DigitChar(n % 10))

\* f"{n:04d}": zero-padded to at least four digits.
RECURSIVE PadLeft(_, _)
PadLeft(s, width) == IF Len(s) >= width THEN s ELSE PadLeft(<<"0">> \o s, width)

Format04d(n) == PadLeft(IntToStr(n), 4)

\* ------------------------------------------------------------------------
\* SEQUENCE_RE = ^(.*?)[\._]*(\d+)\.([a-zA-Z0-9]+)$
\* ------------------------------------------------------------------------

\* The positions of "." in s.
DotPositions(s) == {i \in 1..Len(s) : s[i] = "."}

LastDot(s) == CHOOSE i \in DotPositions(s) : \A j \in DotPositions(s) : j <= i

\* The start of the longest run of characters satisfying the class that ends
\* at position e (e + 1 when s[e] is not of the class).
RECURSIVE RunStart(_, _, _)
RunStart(s, e, isDigitRun) ==
    IF e >= 1 /\ (IF isDigitRun THEN IsDigit(s[e]) ELSE s[e] \in {".", "_"})
    THEN RunStart(s, e - 1, isDigitRun)
    ELSE e + 1

\* The extension is everything after the last dot, non-empty and alphanumeric;
\* the frame is the digit run that ends right before that dot; the lazy prefix
\* is what precedes the dots and underscores in front of the frame.
SeqMatches(s) ==
    /\ DotPositions(s) # {}
    /\ LET d == LastDot(s) IN
        /\ d < Len(s)
        /\ \A i \in (d + 1)..Len(s) : IsAlnum(s[i])
        /\ d >= 2
        /\ IsDigit(s[d - 1])

SeqGroups(s) ==
    LET d  == LastDot(s)
        fs == RunStart(s, d - 1, TRUE)
        ps == RunStart(s, fs - 1, FALSE)
    IN [prefix |-> SubSeq(s, 1, ps - 1),
        frame  |-> SubSeq(s, fs, d - 1),
        ext    |-> SubSeq(s, d + 1, Len(s))]

\* ------------------------------------------------------------------------
\* Generic sequence helpers
\* ------------------------------------------------------------------------

Range(s) == {s[i] : i \in 1..Len(s)}

\* The elements of s that satisfy Test, in order.
Filter(s, Test(_)) == SelectSeq(s, Test)

\* The distinct elements of s in the order of their first appearance: the
\* iteration order of a dict filled from s.
RECURSIVE Distinct(_)
Distinct(s) ==
    IF s = <<>> THEN <<>>
    ELSE LET front == Distinct(SubSeq(s, 1, Len(s) - 1))
             last  == s[Len(s)]
         IN IF last \in Range(front) THEN front ELSE Append(front, last)

RECURSIVE SumSizes(_)
SumSizes(s) == IF s = <<>> THEN 0 ELSE Head(s).size + SumSizes(Tail(s))

\* ------------------------------------------------------------------------
\* Configuration (DEFAULT_CONFIG and config.yaml)
\* ------------------------------------------------------------------------

\* config['min_files_for_sequence'] (50 by default), scaled down.
MinFiles == 3

dpx == <<"d", "p", "x">>

tga == <<"t", "g", "a">>

\* config['image_extensions'], lower-cased by load_config.
image_extensions == {dpx, tga}

\* ------------------------------------------------------------------------
\* Manifest reader (analyze_and_plan_jobs, first half)
\* ------------------------------------------------------------------------

\* A manifest row: ncols columns, column 2 is ftype, column 1 joined with
\* source_root and normalised is dir/name, column 5 parses to size.
Row(n, t, d, nm, sz) == [ncols |-> n, ftype |-> t, dir |-> d, name |-> nm, size |-> sz]

\* 'directory' in file_type
ContainsDirectory(t) == t \in {"directory"}

\* 'file' in file_type
ContainsFile(t) == t \in {"file", "regular file"}

RowIsFile(r) == r.ncols >= 5 /\ ~ContainsDirectory(r.ftype) /\ ContainsFile(r.ftype)

PathOf(r) == [dir |-> r.dir, name |-> r.name]

\* The rows that reach dirs / all_files_from_csv, in file order.
FoundRows(rows) == Filter(rows, RowIsFile)

\* all_files_from_csv: absolute path -> size; a later row of the same path
\* overwrites an earlier one.
all_files_map(rows) ==
    LET found == FoundRows(rows)
        paths == {PathOf(found[i]) : i \in 1..Len(found)}
        lastIdx(p) == CHOOSE i \in 1..Len(found) :
                        /\ PathOf(found[i]) = p
                        /\ \A j \in 1..Len(found) : PathOf(found[j]) = p => j <= i
    IN [p \in paths |-> found[lastIdx(p)].size]

\* Why the reader records line i as malformed, "none" when it does not: too
\* few columns is tested first, then the directory rows are set aside, then
\* a type without 'file' is malformed.
malformed_reason(r) ==
    IF r.ncols < 5 THEN "columns"
    ELSE IF ContainsDirectory(r.ftype) THEN "none"
    ELSE IF ~ContainsFile(r.ftype) THEN "type"
    ELSE "none"

\* malformed_lines: (line number, reason) in file order.
RECURSIVE malformed_lines(_, _)
malformed_lines(rows, n) ==
    IF n = 0 THEN <<>>
    ELSE malformed_lines(rows, n - 1)
            \o (IF malformed_reason(rows[n]) # "none"
                THEN <<[line |-> n, reason |-> malformed_reason(rows[n])]>>
                ELSE <<>>)

\* A reader that counts a directory row before it looks at its width.
lines_ignored_dirs_any_width(rows) ==
    Cardinality({i \in 1..Len(rows) : ContainsDirectory(rows[i].ftype)})

\* lines_ignored_dirs: the rows of five columns whose type has 'directory'.
lines_ignored_dirs(rows) ==
    Cardinality({i \in 1..Len(rows) : rows[i].ncols >= 5 /\ ContainsDirectory(rows[i].ftype)})

NoStats == [mode |-> "none"]

\* stats of analyze_and_plan_jobs.
csv_stats(rows) ==
    [mode |-> "csv", lines_total |-> Len(rows), lines_ignored_dirs |-> lines_ignored_dirs(rows),
     malformed_lines |-> malformed_lines(rows, Len(rows)),
     total_found |-> Cardinality(DOMAIN all_files_map(rows))]

\* stats of scan_directory_and_plan_jobs.
dir_stats(rows) == [mode |-> "dir", total_found |-> Cardinality(DOMAIN all_files_map(rows))]

\* processed_count of show_summary_and_confirm: the found files less the
\* jobs of the plan.
processed_count(copy, archive, st) == st.total_found - (Len(copy) + Len(archive))

\* ------------------------------------------------------------------------
\* Sequence detector (find_sequences)
\* ------------------------------------------------------------------------

\* One regex match of a file of the directory: the tuple appended to
\* sequences_in_dir[(prefix, ext.lower())].
MatchTuple(r) ==
    LET g == SeqGroups(r.name)
    IN [prefix |-> g.prefix, ext |-> LowerStr(g.ext), frame |-> ParseInt(g.frame),
        path |-> PathOf(r), size |-> r.size]

IsSequenceFile(r) ==
    SeqMatches(r.name) /\ LowerStr(SeqGroups(r.name).ext) \in image_extensions

\* (frame, full_path, size) tuples compare by frame, then path, then size.
TupleLess(a, b) ==
    \/ a.frame < b.frame
    \/ /\ a.frame = b.frame
       /\ \/ StrLess(a.path.name, b.path.name)
          \/ a.path.name = b.path.name /\ a.size < b.size

\* file_tuples.sort(): a stable sort, here by insertion.
RECURSIVE InsertTuple(_, _)
InsertTuple(sorted, x) ==
    IF sorted = <<>> THEN <<x>>
    ELSE IF TupleLess(x, Head(sorted)) THEN <<x>> \o sorted
    ELSE <<Head(sorted)>> \o InsertTuple(Tail(sorted), x)

RECURSIVE SortTuples(_)
SortTuples(s) ==
    IF s = <<>> THEN <<>>
    ELSE InsertTuple(SortTuples(SubSeq(s, 1, Len(s) - 1)), s[Len(s)])

\* str.strip() for the blanks of the model.
RECURSIVE Strip(_)
Strip(s) ==
    IF s # <<>> /\ IsSpace(Head(s)) THEN Strip(Tail(s))
    ELSE IF s # <<>> /\ IsSpace(s[Len(s)]) THEN Strip(SubSeq(s, 1, Len(s) - 1))
    ELSE s

\* re.sub(r'[^\w\.\-]', '_', prefix.strip())
SafePrefix(prefix) ==
    LET p == Strip(prefix)
    IN [i \in 1..Len(p) |-> IF IsWordChar(p[i]) \/ p[i] \in {".", "-"} THEN p[i] ELSE "_"]

\* f"{safe_prefix}.{min_frame:04d}-{max_frame:04d}.{ext}.tar"
TarFilename(prefix, minFrame, maxFrame, ext) ==
    SafePrefix(prefix) \o <<".">> \o Format04d(minFrame) \o <<"-">>
        \o Format04d(maxFrame) \o <<".">> \o ext \o <<".", "t", "a", "r">>

NoName == <<>>

FileJob(p, sz) ==
    [type |-> "file", key |-> p, size |-> sz, dir_path |-> p.dir,
     tar_filename |-> NoName, source_files |-> <<>>]

\* The job dict appended to all_sequences for one group; tuples are sorted.
SequenceJob(d, prefix, ext, tuples) ==
    LET tar == TarFilename(prefix, tuples[1].frame, tuples[Len(tuples)].frame, ext)
    IN [type |-> "sequence", key |-> [dir |-> d, name |-> tar], size |-> SumSizes(tuples),
        dir_path |-> d, tar_filename |-> tar,
        source_files |-> [i \in 1..Len(tuples) |-> tuples[i].path]]

\* The directories of dirs, in insertion order.
DirOrder(found) == Distinct([i \in 1..Len(found) |-> found[i].dir])

\* The tuples of sequences_in_dir, in insertion order, for directory d.
DirTuples(found, d) ==
    LET inDir(r) == r.dir = d /\ IsSequenceFile(r)
        rs == Filter(found, inDir)
    IN [i \in 1..Len(rs) |-> MatchTuple(rs[i])]

\* The keys (prefix, ext) of sequences_in_dir, in insertion order.
GroupKeys(tuples) == Distinct([i \in 1..Len(tuples) |-> <<tuples[i].prefix, tuples[i].ext>>])

GroupTuples(tuples, k) ==
    LET inGroup(t) == <<t.prefix, t.ext>> = k
    IN Filter(tuples, inGroup)

\* The promotion test of copeer.py: the group's size alone.
IsPromoted(tuples) == Len(tuples) >= MinFiles

\* The sequence jobs of one directory, in the order of its groups.
RECURSIVE DirSequences(_, _, _)
DirSequences(d, tuples, keys) ==
    IF keys = <<>> THEN <<>>
    ELSE LET k  == Head(keys)
             ts == GroupTuples(tuples, k)
             rest == DirSequences(d, tuples, Tail(keys))
         IN IF IsPromoted(ts)
            THEN <<SequenceJob(d, k[1], k[2], SortTuples(ts))>> \o rest
            ELSE rest

RECURSIVE AllSequences(_, _)
AllSequences(found, dirOrder) ==
    IF dirOrder = <<>> THEN <<>>
    ELSE LET ts == DirTuples(found, Head(dirOrder))
         IN DirSequences(Head(dirOrder), ts, GroupKeys(ts))
                \o AllSequences(found, Tail(dirOrder))

\* find_sequences(dirs, config): (all_sequences, sequence_files).
find_sequences(found) ==
    LET seqs == AllSequences(found, DirOrder(found))
    IN [all_sequences |-> seqs,
        sequence_files |-> UNION {Range(seqs[i].source_files) : i \in 1..Len(seqs)}]

\* ------------------------------------------------------------------------
\* Planner (analyze_and_plan_jobs, second half)
\* ------------------------------------------------------------------------

\* jobs.sort(key=size, reverse=True): stable, larger sizes first.
RECURSIVE InsertBySize(_, _)
InsertBySize(sorted, x) ==
    IF sorted = <<>> THEN <<x>>
    ELSE IF x.size > Head(sorted).size THEN <<x>> \o sorted
    ELSE <<Head(sorted)>> \o InsertBySize(Tail(sorted), x)

RECURSIVE SortBySizeDescending(_)
SortBySizeDescending(s) ==
    IF s = <<>> THEN <<>>
    ELSE InsertBySize(SortBySizeDescending(SubSeq(s, 1, Len(s) - 1)), s[Len(s)])

\* A planner that leaves the jobs in the order the set yields them.
RECURSIVE UnsortedOrders(_)
UnsortedOrders(S) ==
    IF S = {} THEN {<<>>}
    ELSE UNION {{<<j>> \o rest : rest \in UnsortedOrders(S \ {j})} : j \in S}

\* The lists sorted(jobs, by size, descending) can yield for a set of jobs:
\* the set is iterated in hash order, which the sort keeps among equal sizes.
RECURSIVE SortedOrders(_)
SortedOrders(S) ==
    IF S = {} THEN {<<>>}
    ELSE LET largest == {j \in S : \A k \in S : k.size <= j.size}
         IN UNION {{<<j>> \o rest : rest \in SortedOrders(S \ {j})} : j \in largest}

\* A planner that keeps the members of sequences among the single files.
standalone_files_with_members(rows) == DOMAIN all_files_map(rows)

standalone_files(rows) ==
    DOMAIN all_files_map(rows) \ find_sequences(FoundRows(rows)).sequence_files

\* A planner that does not consult the state log for copy jobs.
copy_jobs_unfiltered(rows, processed) ==
    {FileJob(p, all_files_map(rows)[p]) : p \in standalone_files(rows)}

\* copy_jobs_to_process before the sort (as a set: it is built from a set).
copy_jobs_all(rows, processed) ==
    {FileJob(p, all_files_map(rows)[p]) : p \in standalone_files(rows) \ processed}

\* archive_jobs_to_process, sorted.
archive_jobs_to_process(rows, processed) ==
    LET unprocessed(j) == j.key \notin processed
    IN SortBySizeDescending(Filter(find_sequences(FoundRows(rows)).all_sequences, unprocessed))

\* ------------------------------------------------------------------------
\* Disk manager (class DiskManager)
\* ------------------------------------------------------------------------

\* config['mount_points'], in order.
mount_points == <<"A", "B", "C">>

Mounts == Range(mount_points)

\* config['threshold'] = 98.0, in hundredths of a percent.
threshold == 9800

\* sys.maxsize, as far as the model's integers go.
maxsize == 2147483647

NoDisk == "None"

\* What os.path.exists and os.statvfs report for a mount (f_frsize is 1).
DiskState(e, blocks, bfree, bavail) ==
    [exists |-> e, f_blocks |-> blocks, f_bfree |-> bfree, f_bavail |-> bavail]

\* round(x / y * 100, 2), in hundredths of a percent.
RoundedPercent(x, y) == (2 * x * 10000 + y) \div (2 * y)

\* DiskManager._get_disk_usage, in hundredths of a percent.
get_disk_usage(ds, dry, m) ==
    IF dry THEN 0
    ELSE IF ~ds[m].exists THEN 10000
    ELSE IF ds[m].f_blocks > 0
         THEN RoundedPercent(ds[m].f_blocks - ds[m].f_bfree, ds[m].f_blocks)
         ELSE 0

\* DiskManager._get_disk_free_space
get_disk_free_space(ds, dry, m) ==
    IF dry THEN maxsize
    ELSE IF ~ds[m].exists THEN 0
    ELSE ds[m].f_bavail

\* A suitability test that lets the two boundary cases through.
is_disk_suitable_inclusive(ds, dry, m, required_space) ==
    IF ~dry
    THEN /\ ds[m].exists
         /\ ~(get_disk_usage(ds, dry, m) > threshold)
         /\ ~(get_disk_free_space(ds, dry, m) < required_space)
    ELSE TRUE

\* DiskManager._is_disk_suitable
is_disk_suitable(ds, dry, m, required_space) ==
    IF ~dry
    THEN /\ ds[m].exists
         /\ ~(get_disk_usage(ds, dry, m) >= threshold)
         /\ ~(get_disk_free_space(ds, dry, m) <= required_space)
    ELSE TRUE

\* The first element of a sequence of mounts that is suitable, or NoDisk.
FirstSuitable(ds, dry, ms, size) ==
    LET ok == {i \in 1..Len(ms) : is_disk_suitable(ds, dry, ms[i], size)}
    IN IF ok = {} THEN NoDisk ELSE ms[CHOOSE i \in ok : \A j \in ok : i <= j]

\* A DiskManager that starts on the first mount without looking at it.
select_first_mount(ds, dry) == mount_points[1]

\* DiskManager._select_initial_disk: the new active_disk, NoDisk when it raises.
select_initial_disk(ds, dry) == FirstSuitable(ds, dry, mount_points, 0)

\* mount_points[:n] and mount_points[n:] for n >= 0.
preferred_pool(n) == SubSeq(mount_points, 1, Min(n, Len(mount_points)))

fallback_disks(n) == SubSeq(mount_points, Min(n, Len(mount_points)) + 1, Len(mount_points))

\* A scan of the preferred pool that looks at the disk at next_disk_index only.
preferred_offset_single(ds, dry, n, next, size) ==
    LET pool == preferred_pool(n)
    IN IF pool # <<>> /\ is_disk_suitable(ds, dry, pool[(next % Len(pool)) + 1], size)
       THEN 0 ELSE -1

\* Phase 1 of round_robin: the offset i of the first suitable preferred disk
\* in the cyclic scan from next_disk_index, or -1.
preferred_offset(ds, dry, n, next, size) ==
    LET pool == preferred_pool(n)
        ok == {i \in 0..(Len(pool) - 1) :
                  is_disk_suitable(ds, dry, pool[((next + i) % Len(pool)) + 1], size)}
    IN IF ok = {} THEN -1 ELSE CHOOSE i \in ok : \A j \in ok : i <= j

\* A round_robin that returns the first suitable preferred disk of the scan
\* and leaves next_disk_index where it was.
destination_round_robin_stuck(ds, dry, n, active, next, size) ==
    LET pool == preferred_pool(n)
        off  == preferred_offset(ds, dry, n, next, size)
    IN [disk |-> IF off >= 0 THEN pool[((next + off) % Len(pool)) + 1]
                 ELSE FirstSuitable(ds, dry, fallback_disks(n), size),
        active_disk |-> active, next_disk_index |-> next]

\* A round_robin that advances next_disk_index without wrapping it round.
destination_round_robin_unwrapped(ds, dry, n, active, next, size) ==
    LET pool == preferred_pool(n)
        off  == preferred_offset(ds, dry, n, next, size)
    IN IF off >= 0
       THEN LET check_index == (next + off) % Len(pool)
            IN [disk |-> pool[check_index + 1], active_disk |-> active,
                next_disk_index |-> check_index + 1]
       ELSE [disk |-> FirstSuitable(ds, dry, fallback_disks(n), size),
             active_disk |-> active, next_disk_index |-> next]

\* DiskManager.get_current_destination under round_robin: the returned disk
\* (NoDisk when it raises) and the manager's fields afterwards.
destination_round_robin(ds, dry, n, active, next, size) ==
    LET pool == preferred_pool(n)
        off  == preferred_offset(ds, dry, n, next, size)
    IN IF off >= 0
       THEN LET check_index == (next + off) % Len(pool)
            IN [disk |-> pool[check_index + 1], active_disk |-> active,
                next_disk_index |-> (check_index + 1) % Len(pool)]
       ELSE [disk |-> FirstSuitable(ds, dry, fallback_disks(n), size),
             active_disk |-> active, next_disk_index |-> next]

\* A fill strategy that always restarts from the first suitable mount.
destination_fill_restart(ds, dry, active, next, size) ==
    LET d == FirstSuitable(ds, dry, mount_points, size)
    IN [disk |-> d, active_disk |-> IF d = NoDisk THEN active ELSE d, next_disk_index |-> next]

\* DiskManager.get_current_destination under fill.
destination_fill(ds, dry, active, next, size) ==
    LET suitable(m) == is_disk_suitable(ds, dry, m, size)
        suitable_disks == Filter(mount_points, suitable)
    IN IF suitable_disks = <<>>
       THEN [disk |-> NoDisk, active_disk |-> active, next_disk_index |-> next]
       ELSE IF active \notin Range(suitable_disks)
            THEN [disk |-> suitable_disks[1], active_disk |-> suitable_disks[1],
                  next_disk_index |-> next]
            ELSE [disk |-> active, active_disk |-> active, next_disk_index |-> next]

\* A manager that keeps returning its active disk without testing it.
destination_unchecked(ds, dry, strat, n, active, next, size) ==
    [disk |-> active, active_disk |-> active, next_disk_index |-> next]

get_current_destination(ds, dry, strat, n, active, next, size) ==
    IF strat = "round_robin"
    THEN destination_round_robin(ds, dry, n, active, next, size)
    ELSE destination_fill(ds, dry, active, next, size)

\* ------------------------------------------------------------------------
\* Inputs of the model
\* ------------------------------------------------------------------------

\* The most sessions (runs of main) one behaviour holds.
MaxRuns == 2

\* config['threads'] (8 by default), scaled down.
Threads == 2

f0001dpx == <<"f", "0", "0", "0", "1", ".", "d", "p", "x">>

f0002dpx == <<"f", "0", "0", "0", "2", ".", "d", "p", "x">>

fdot0003dpx == <<"f", ".", "0", "0", "0", "3", ".", "d", "p", "x">>

f0004DPX == <<"f", "0", "0", "0", "4", ".", "D", "P", "X">>

f0006dpx == <<"f", "0", "0", "0", "6", ".", "d", "p", "x">>

xmov == <<"x", ".", "m", "o", "v">>

c01mov == <<"c", "0", "1", ".", "m", "o", "v">>

subdir == <<"a">>

\* The rows manifests are drawn from: frames of one group with a gap, a file
\* without a frame number, a numbered file that is no image, a directory row
\* and two rows that repeat a path with another size.
ManifestRows ==
    << Row(5, "file", "d1", f0001dpx, 1),
       Row(5, "file", "d1", f0002dpx, 1),
       Row(5, "regular file", "d1", fdot0003dpx, 1),
       Row(5, "file", "d1", f0004DPX, 1),
       Row(5, "file", "d1", f0006dpx, 1),
       Row(5, "file", "d1", xmov, 2),
       Row(5, "file", "d1", c01mov, 3),
       Row(5, "directory", "d1", subdir, 0),
       Row(5, "file", "d1", f0001dpx, 2),
       Row(5, "file", "d1", xmov, 1) >>

\* The elements of s at the positions of S, in order.
RECURSIVE PickFrom(_, _, _)
PickFrom(s, S, i) ==
    IF i > Len(s) THEN <<>>
    ELSE (IF i \in S THEN <<s[i]>> ELSE <<>>) \o PickFrom(s, S, i + 1)

Pick(s, S) == PickFrom(s, S, 1)

\* The manifest of the sessions: MinFiles + 1 frames less the gap, two
\* single files and a directory.
SessionManifest == Pick(ManifestRows, {1, 2, 3, 4, 6, 7, 8})

\* A frame file <letter>NNNN.dpx.
FrameName(letter, n) == <<letter>> \o Format04d(n) \o <<".", "d", "p", "x">>

\* A manifest of two groups of min_files_for_sequence frames each, the
\* second of larger files, and no single file.
ArchiveManifest ==
    [n \in 1..MinFiles |-> Row(5, "file", "d1", FrameName("f", n), 1)]
        \o [n \in 1..MinFiles |-> Row(5, "file", "d1", FrameName("g", n), 2)]

\* The manifests of the sessions.
SessionManifests == {SessionManifest, ArchiveManifest}

f0001_0003tar ==
    <<"f", ".", "0", "0", "0", "1", "-", "0", "0", "0", "3", ".", "d", "p", "x", ".", "t", "a", "r">>

\* Keys a state log may hold before the first session of a planning run.
StateKeyRows ==
    << [key |-> [dir |-> "d1", name |-> xmov], run |-> 0],
       [key |-> [dir |-> "d1", name |-> c01mov], run |-> 0],
       [key |-> [dir |-> "d1", name |-> f0001dpx], run |-> 0],
       [key |-> [dir |-> "d1", name |-> f0001_0003tar], run |-> 0] >>

RoomyDisk == DiskState(TRUE, 100, 50, 45)

\* 96% used and four blocks free: two blocks more reach the threshold.
TightDisk == DiskState(TRUE, 100, 4, 4)

\* 97% used, three blocks free.
NearlyFullDisk == DiskState(TRUE, 100, 3, 3)

\* Exactly at the threshold.
ThresholdDisk == DiskState(TRUE, 100, 2, 2)

FullDisk == DiskState(TRUE, 100, 1, 1)

MissingDisk == DiskState(FALSE, 0, 0, 0)

DiskStates == {RoomyDisk, NearlyFullDisk, ThresholdDisk, FullDisk, MissingDisk}

\* job_size arguments of get_current_destination: below, at and above the
\* free space of the disk states.
JobSizes == {1, 3, 45}

DisksOf(a, b, c) == [m \in Mounts |-> CASE m = "A" -> a [] m = "B" -> b [] OTHER -> c]

\* The mounts as the sessions find them at the start.
SessionDisks ==
    { DisksOf(RoomyDisk, RoomyDisk, RoomyDisk),
      DisksOf(FullDisk, RoomyDisk, MissingDisk),
      DisksOf(TightDisk, FullDisk, MissingDisk),
      DisksOf(NearlyFullDisk, FullDisk, MissingDisk),
      DisksOf(FullDisk, ThresholdDisk, MissingDisk) }

Strategies == {"fill", "round_robin"}

VARIABLES
    manifest,              \* the rows of the input manifest (or the walked tree)
    input_mode,            \* "csv" (--input-file) or "dir" (--source-dir)
    program,               \* the script that runs: "copeer" (copeer.py) or "cooper1" (cooper1.py)
    strategy,              \* config['disk_strategy']
    max_concurrent_disks,  \* config['max_concurrent_disks']
    source_root,           \* config['source_root']: given or not, and its components
    destination_root,      \* config['destination_root'], as components
    is_dry_run,            \* config['dry_run']
    disks,                 \* mount -> what the filesystem reports
    state_file,            \* rows of copier_state.csv
    mapping_file,          \* rows of mapping.csv
    dry_run_mapping_file,  \* rows of dry_run_mapping.csv
    error_log_file,        \* rows of errors.log
    run,                   \* the number of the session
    main_pc,               \* where main is
    processed_items_keys,  \* the keys load_previous_state read
    copy_jobs,             \* the planned copy jobs, in order
    archive_jobs,          \* the planned archive jobs, in order
    stats,                 \* the stats the planner returned
    active_disk,           \* DiskManager.active_disk
    next_disk_index,       \* DiskManager.next_disk_index
    dm_job_size,           \* the argument of the last get_current_destination
    dm_result,             \* what it returned ("None": it raised)
    last_dest_path,        \* the last dest_path a worker derived, with its key and mount
    copy_state,            \* per copy job: its future and worker
    archive_state,         \* per archive job: its future and worker
    worker_id_queue,       \* the free worker IDs
    file_lock,             \* who holds file_lock ("free": nobody)
    error_pending          \* per failing job: what its handler has yet to write

inputVars == <<manifest, input_mode, program, strategy, max_concurrent_disks,
               source_root, destination_root>>

logVars == <<state_file, mapping_file, dry_run_mapping_file, error_log_file>>

planVars == <<processed_items_keys, copy_jobs, archive_jobs, stats>>

dmVars == <<active_disk, next_disk_index>>

callVars == <<dm_job_size, dm_result, last_dest_path>>

jobVars == <<copy_state, archive_state, worker_id_queue>>

lockVars == <<file_lock, error_pending>>

vars == <<inputVars, is_dry_run, disks, logVars, run, main_pc, planVars, dmVars,
          callVars, jobVars, lockVars>>

\* file_lock when no thread holds it.
Free == "free"

\* No exception handler has anything to write.
NoPending == <<>>

\* ------------------------------------------------------------------------
\* Paths: a path is absolute or not and has components, each a string of
\* characters; dest_path of process_job_worker
\* ------------------------------------------------------------------------

AbsPath(comps) == [absolute |-> TRUE, comps |-> comps]

RelPath(comps) == [absolute |-> FALSE, comps |-> comps]

CurDir == <<".">>

ParDir == <<".", ".">>

\* The string of a path: its components with os.path.sep between them.
RECURSIVE JoinComps(_)
JoinComps(comps) ==
    IF comps = <<>> THEN <<>>
    ELSE IF Len(comps) = 1 THEN Head(comps)
    ELSE Head(comps) \o <<"/">> \o JoinComps(Tail(comps))

PathStr(p) == IF p.absolute THEN <<"/">> \o JoinComps(p.comps) ELSE JoinComps(p.comps)

\* str.startswith
startswith(str, prefix) ==
    Len(str) >= Len(prefix) /\ SubSeq(str, 1, Len(prefix)) = prefix

\* str.lstrip(os.path.sep) on the string of a path.
lstrip_sep(p) == RelPath(p.comps)

\* os.path.join(a, b): an absolute b discards a.
join(a, b) == IF b.absolute THEN b ELSE [absolute |-> a.absolute, comps |-> a.comps \o b.comps]

\* os.path.normpath: "." is dropped and ".." takes the component before it
\* away (at the root of an absolute path it is dropped).
RECURSIVE NormComps(_, _, _)
NormComps(comps, acc, absolute) ==
    IF comps = <<>> THEN acc
    ELSE LET c == Head(comps)
         IN IF c = CurDir THEN NormComps(Tail(comps), acc, absolute)
            ELSE IF c = ParDir
                 THEN IF acc # <<>> /\ acc[Len(acc)] # ParDir
                      THEN NormComps(Tail(comps), SubSeq(acc, 1, Len(acc) - 1), absolute)
                      ELSE IF absolute
                           THEN NormComps(Tail(comps), acc, absolute)
                           ELSE NormComps(Tail(comps), Append(acc, c), absolute)
                 ELSE NormComps(Tail(comps), Append(acc, c), absolute)

normpath(p) == [absolute |-> p.absolute, comps |-> NormComps(p.comps, <<>>, p.absolute)]

\* os.path.relpath(path, start) for two absolute normalized paths: up from
\* start to the common directory, then down to path.
relpath(path, start) ==
    LET same == {i \in 0..Min(Len(path.comps), Len(start.comps)) :
                    \A j \in 1..i : path.comps[j] = start.comps[j]}
        i == CHOOSE a \in same : \A b \in same : b <= a
        rel == [j \in 1..(Len(start.comps) - i) |-> ParDir]
                   \o SubSeq(path.comps, i + 1, Len(path.comps))
    IN RelPath(IF rel = <<>> THEN <<CurDir>> ELSE rel)

\* The path of a mount point: /mnt/<mount>.
MountPath(m) == AbsPath(<<<<"m", "n", "t">>, <<m>>>>)

\* rel_path and dest_path of process_job_worker (copeer.py).
dest_path_of(m, sroot, droot, key) ==
    LET rel_path == IF sroot.given /\ startswith(PathStr(key), PathStr(AbsPath(sroot.path)))
                    THEN relpath(key, AbsPath(sroot.path))
                    ELSE lstrip_sep(key)
    IN normpath(join(join(MountPath(m), lstrip_sep(AbsPath(droot))), rel_path))

\* last_dest_path when no worker has derived a path.
NoDestPath == [called |-> FALSE, key |-> AbsPath(<<>>), mount |-> "None", path |-> AbsPath(<<>>)]

\* DEFAULT_CONFIG['source_root'] ('/path/to/source/data', here /src) and
\* DEFAULT_CONFIG['destination_root'] ('/').
DefaultSourceRoot == [given |-> TRUE, path |-> <<<<"s", "r", "c">>>>]

DefaultDestinationRoot == <<>>

\* dm_job_size when get_current_destination has not been called.
NoCall == "none"

\* A future that has not started: no destination, no worker, nothing logged,
\* no rsync ended by a signal (return_code 0), no tar file at dest_path.
QueuedJob ==
    [status |-> "queued", dest |-> NoDisk, wid |-> 0, logged |-> 0, return_code |-> 0,
     tar |-> "none"]

\* ------------------------------------------------------------------------
\* Planning (main up to the confirmation)
\* ------------------------------------------------------------------------

\* load_previous_state: the first cell of every row.
load_previous_state(rows) == {rows[i].key : i \in 1..Len(rows)}

DryRunHeader == [key |-> "source_path", dest |-> "destination_path", run |-> 0]

\* main: the dry-run mapping file is recreated with its header, the state
\* log is loaded and analyze_and_plan_jobs plans; with nothing to do main
\* returns.
PlanWith(rows) ==
    LET processed == load_previous_state(state_file)
        archive   == archive_jobs_to_process(rows, processed)
    IN /\ main_pc = "start"
       /\ processed_items_keys' = processed
       /\ stats' = IF input_mode = "csv" THEN csv_stats(rows) ELSE dir_stats(rows)
       /\ archive_jobs' = archive
       /\ copy_jobs' \in SortedOrders(copy_jobs_all(rows, processed))
       /\ dry_run_mapping_file' = IF is_dry_run THEN <<DryRunHeader>> ELSE dry_run_mapping_file
       /\ main_pc' = IF copy_jobs' = <<>> /\ archive = <<>> THEN "done" ELSE "planned"
       /\ UNCHANGED <<inputVars, lockVars, is_dry_run, disks, state_file, mapping_file, error_log_file,
                      run, dmVars, callVars, jobVars>>

\* analyze_and_plan_jobs on the manifest.
AnalyzeAndPlan == input_mode = "csv" /\ PlanWith(manifest)

\* scan_directory_and_plan_jobs: os.walk yields the files of the tree only.
ScanAndPlan == input_mode = "dir" /\ PlanWith(FoundRows(manifest))

\* A walk of a directory tree meets every path once.
NoRepeatedPath(rows) ==
    \A i, j \in 1..Len(rows) : PathOf(rows[i]) = PathOf(rows[j]) => i = j

\* A frame file "f NNNN.dpx": its prefix is "f ", which strip() makes "f".
SpacedFrameName(n) == <<"f", " ">> \o Format04d(n) \o <<".", "d", "p", "x">>

\* Manifests whose names meet in one tar name: a group "f" next to a group
\* "f ", and a group "f" next to a file that has the name of its tar.
TarNameManifests ==
    LET frames == [n \in 1..MinFiles |-> Row(5, "file", "d1", FrameName("f", n), 1)]
    IN { frames \o [n \in 1..MinFiles |-> Row(5, "file", "d1", SpacedFrameName(n), 1)],
         frames \o <<Row(5, "file", "d1", TarFilename(<<"f">>, 1, MinFiles, dpx), 1)>> }

\* Rows the reader has to set aside, and two it reads: a row of four
\* columns, an empty line, a directory row of three columns, a row of a
\* type that is neither file nor directory, a file and a directory.
MixedRows ==
    << Row(4, "file", "d1", xmov, 1),
       Row(0, "", "", <<>>, 0),
       Row(3, "directory", "d1", subdir, 0),
       Row(5, "symlink", "d1", xmov, 1),
       Row(5, "file", "d1", c01mov, 3),
       Row(5, "directory", "d1", subdir, 0) >>

\* Manifests of two directories that hold a file of the same name.
SameNameManifests ==
    { <<Row(5, "file", "d1", xmov, 2), Row(5, "file", "d2", xmov, 2)>>,
      <<Row(5, "file", "d2", xmov, 2), Row(5, "file", "d1", xmov, 2)>>,
      <<Row(5, "file", "d1", xmov, 2), Row(5, "file", "d1", c01mov, 3),
        Row(5, "file", "d2", xmov, 2)>> }

InitPlan ==
    /\ manifest \in {Pick(ManifestRows, S) : S \in SUBSET (1..Len(ManifestRows))}
                        \cup TarNameManifests \cup SameNameManifests
                        \cup {Pick(MixedRows, S) : S \in SUBSET (1..Len(MixedRows))}
    /\ input_mode \in {"csv", "dir"}
    /\ program = "copeer"
    /\ input_mode = "dir" => NoRepeatedPath(manifest)
    /\ state_file \in {Pick(StateKeyRows, S) : S \in SUBSET (1..Len(StateKeyRows))}
    /\ strategy = "fill"
    /\ max_concurrent_disks = 0
    /\ is_dry_run = FALSE
    /\ disks = DisksOf(RoomyDisk, RoomyDisk, RoomyDisk)
    /\ mapping_file = <<>>
    /\ dry_run_mapping_file = <<>>
    /\ error_log_file = <<>>
    /\ run = 1
    /\ main_pc = "start"
    /\ processed_items_keys = {}
    /\ stats = NoStats
    /\ copy_jobs = <<>>
    /\ archive_jobs = <<>>
    /\ active_disk = NoDisk
    /\ next_disk_index = 0
    /\ dm_job_size = NoCall
    /\ dm_result = NoDisk
    /\ source_root = DefaultSourceRoot
    /\ destination_root = DefaultDestinationRoot
    /\ last_dest_path = NoDestPath
    /\ copy_state = <<>>
    /\ archive_state = <<>>
    /\ worker_id_queue = <<>>
    /\ file_lock = Free
    /\ error_pending = NoPending

NextPlan == AnalyzeAndPlan \/ ScanAndPlan

\* The planner alone, on every manifest drawn from ManifestRows.
SpecPlan == InitPlan /\ [][NextPlan]_vars

\* ------------------------------------------------------------------------
\* The planner run twice on the same inputs
\* ------------------------------------------------------------------------

\* The longest manifest planned twice.
MaxReplanRows == 3

InitReplan == InitPlan /\ Len(manifest) <= MaxReplanRows

\* The program is started again with the manifest, the configuration and
\* the state log as they were; copy_jobs and archive_jobs hold the lists of
\* the run before until the planner returns.
RestartPlan ==
    /\ main_pc \in {"planned", "done"}
    /\ run < MaxRuns
    /\ run' = run + 1
    /\ main_pc' = "start"
    /\ UNCHANGED <<inputVars, lockVars, is_dry_run, disks, logVars, planVars, dmVars, callVars,
                   jobVars>>

NextReplan == AnalyzeAndPlan \/ ScanAndPlan \/ RestartPlan

SpecReplan == InitReplan /\ [][NextReplan]_vars

\* ------------------------------------------------------------------------
\* The disk manager alone, called with every job size while the mounts change
\* ------------------------------------------------------------------------

InitDisk ==
    /\ manifest = <<>>
    /\ input_mode = "csv"
    /\ program = "copeer"
    /\ strategy \in Strategies
    /\ max_concurrent_disks \in 0..(Len(mount_points) + 1)
    /\ is_dry_run \in BOOLEAN
    /\ disks \in [Mounts -> DiskStates]
    /\ state_file = <<>>
    /\ mapping_file = <<>>
    /\ dry_run_mapping_file = <<>>
    /\ error_log_file = <<>>
    /\ run = 1
    /\ main_pc = "new"
    /\ processed_items_keys = {}
    /\ stats = NoStats
    /\ copy_jobs = <<>>
    /\ archive_jobs = <<>>
    /\ active_disk = NoDisk
    /\ next_disk_index = 0
    /\ dm_job_size = NoCall
    /\ dm_result = NoDisk
    /\ source_root = DefaultSourceRoot
    /\ destination_root = DefaultDestinationRoot
    /\ last_dest_path = NoDestPath
    /\ copy_state = <<>>
    /\ archive_state = <<>>
    /\ worker_id_queue = <<>>
    /\ file_lock = Free
    /\ error_pending = NoPending

\* DiskManager.__init__: _select_initial_disk raises when no mount is suitable.
DM_Construct ==
    /\ main_pc = "new"
    /\ active_disk' = select_initial_disk(disks, is_dry_run)
    /\ next_disk_index' = 0
    /\ main_pc' = IF active_disk' = NoDisk THEN "aborted" ELSE "ready"
    /\ UNCHANGED <<inputVars, lockVars, is_dry_run, disks, logVars, run, planVars, callVars, jobVars>>

\* One call of get_current_destination(job_size), under the manager's lock.
DM_Call ==
    /\ main_pc \in {"ready", "returned"}
    /\ \E size \in JobSizes :
         LET r == get_current_destination(disks, is_dry_run, strategy, max_concurrent_disks,
                                          active_disk, next_disk_index, size)
         IN /\ dm_job_size' = size
            /\ dm_result' = r.disk
            /\ last_dest_path' = last_dest_path
            /\ active_disk' = r.active_disk
            /\ next_disk_index' = r.next_disk_index
    /\ main_pc' = "returned"
    /\ UNCHANGED <<inputVars, lockVars, is_dry_run, disks, logVars, run, planVars, jobVars>>

\* Between calls a mount fills, empties, disappears or comes back.
DM_Env ==
    /\ main_pc \in {"ready", "returned"}
    /\ \E m \in Mounts, st \in DiskStates : disks' = [disks EXCEPT ![m] = st]
    /\ main_pc' = "ready"
    /\ dm_job_size' = NoCall
    /\ dm_result' = NoDisk
    /\ last_dest_path' = last_dest_path
    /\ UNCHANGED <<inputVars, lockVars, is_dry_run, logVars, run, planVars, dmVars, jobVars>>

NextDisk == DM_Construct \/ DM_Call \/ DM_Env

SpecDisk == InitDisk /\ [][NextDisk]_vars

\* ------------------------------------------------------------------------
\* Sessions (main, process_job_worker, write_log)
\* ------------------------------------------------------------------------

Init ==
    /\ manifest \in SessionManifests
    /\ input_mode = "csv"
    /\ program = "copeer"
    /\ strategy \in Strategies
    /\ max_concurrent_disks \in {1, 2}
    /\ is_dry_run \in BOOLEAN
    /\ disks \in SessionDisks
    /\ state_file = <<>>
    /\ mapping_file = <<>>
    /\ dry_run_mapping_file = <<>>
    /\ error_log_file = <<>>
    /\ run = 1
    /\ main_pc = "start"
    /\ processed_items_keys = {}
    /\ stats = NoStats
    /\ copy_jobs = <<>>
    /\ archive_jobs = <<>>
    /\ active_disk = NoDisk
    /\ next_disk_index = 0
    /\ dm_job_size = NoCall
    /\ dm_result = NoDisk
    /\ source_root = DefaultSourceRoot
    /\ destination_root = DefaultDestinationRoot
    /\ last_dest_path = NoDestPath
    /\ copy_state = <<>>
    /\ archive_state = <<>>
    /\ worker_id_queue = <<>>
    /\ file_lock = Free
    /\ error_pending = NoPending

\* main after the confirmation: the DiskManager is created (a RuntimeError of
\* _select_initial_disk ends main), the worker IDs are set up and every copy
\* job is submitted to the executor.
StartExecution ==
    /\ main_pc = "planned"
    /\ active_disk' = select_initial_disk(disks, is_dry_run)
    /\ next_disk_index' = 0
    /\ IF active_disk' = NoDisk
       THEN main_pc' = "aborted" /\ UNCHANGED jobVars
       ELSE /\ main_pc' = IF copy_jobs # <<>> THEN "phase1" ELSE "phase2"
            /\ copy_state' = [i \in 1..Len(copy_jobs) |-> QueuedJob]
            /\ archive_state' = [i \in 1..Len(archive_jobs) |-> QueuedJob]
            /\ worker_id_queue' = [i \in 1..Threads |-> i]
    /\ UNCHANGED <<inputVars, lockVars, is_dry_run, disks, logVars, run, planVars, callVars>>

InFlight(st) == {i \in 1..Len(st) : st[i].status \in {"running", "placed"}}

\* A loop that waits only until every future has been started.
NoneQueued(st) == \A i \in 1..Len(st) : st[i].status # "queued"

Terminal(st) == \A i \in 1..Len(st) : st[i].status \in {"logged", "reaped"}

\* A worker that swallows a failure without writing to errors.log.
NoErrorRows(job, msg) == <<>>

\* The rows process_job_worker appends to errors.log for a failed job: one
\* for a file, one per source file for a sequence.
ErrorRows(job, msg) ==
    IF job.type = "sequence"
    THEN [i \in 1..Len(job.source_files) |->
             [key |-> job.source_files[i], msg |-> msg, run |-> run]]
    ELSE <<[key |-> job.key, msg |-> msg, run |-> run]>>

\* dest_path: the mount joined with the job's path below the source root.
DestPath(m, job) == [mount |-> m, rel |-> job.key]

\* What a write to mount m of size blocks leaves of it.
Consume(ds, m, size) ==
    [ds EXCEPT ![m].f_bfree = @ - size, ![m].f_bavail = @ - size]

\* A worker that reports the key of the job itself, for either type.
source_keys_job_key(job) == <<job.key>>

\* source_keys_to_log of process_job_worker.
source_keys_to_log(job) == IF job.type = "sequence" THEN job.source_files ELSE <<job.key>>

\* A write_log that appends the state row in a dry run too.
write_log_any_mode(key, dest_path) ==
    /\ state_file' = Append(state_file, [key |-> key, run |-> run])
    /\ mapping_file' = Append(mapping_file, [key |-> key, dest |-> dest_path, run |-> run])
    /\ UNCHANGED <<dry_run_mapping_file, error_log_file>>

\* write_log(state_file, mapping_file, key, dest_path, is_dry_run), under file_lock.
write_log(key, dest_path) ==
    /\ state_file' = IF ~is_dry_run
                     THEN Append(state_file, [key |-> key, run |-> run])
                     ELSE state_file
    /\ mapping_file' = Append(mapping_file, [key |-> key, dest |-> dest_path, run |-> run])
    /\ UNCHANGED <<dry_run_mapping_file, error_log_file>>

\* An executor thread takes the next copy job; job_wrapper gets a worker ID.
StartCopy(i) ==
    /\ main_pc \in {"phase1", "shutdown"}
    /\ copy_state[i].status = "queued"
    /\ \A j \in 1..(i - 1) : copy_state[j].status # "queued"
    /\ Cardinality(InFlight(copy_state)) < Threads
    /\ worker_id_queue # <<>>
    /\ copy_state' = [copy_state EXCEPT ![i].status = "running", ![i].wid = Head(worker_id_queue)]
    /\ worker_id_queue' = Tail(worker_id_queue)
    /\ UNCHANGED <<inputVars, lockVars, is_dry_run, disks, logVars, run, main_pc, planVars, dmVars,
                   callVars, archive_state>>

\* process_job_worker calls get_current_destination(job['size']); when it
\* raises, the job fails: its error rows are written and its ID is released.
ResolveCopy(i) ==
    /\ main_pc \in {"phase1", "shutdown"}
    /\ copy_state[i].status = "running"
    /\ LET r == get_current_destination(disks, is_dry_run, strategy, max_concurrent_disks,
                                        active_disk, next_disk_index, copy_jobs[i].size)
       IN /\ active_disk' = r.active_disk
          /\ next_disk_index' = r.next_disk_index
          /\ IF r.disk = NoDisk
             THEN /\ copy_state' = [copy_state EXCEPT ![i].status = "failed", ![i].wid = 0]
                  /\ worker_id_queue' = Append(worker_id_queue, copy_state[i].wid)
                  /\ error_log_file' = error_log_file \o ErrorRows(copy_jobs[i], "NoSpace")
             ELSE /\ copy_state' = [copy_state EXCEPT ![i].status = "placed", ![i].dest = r.disk]
                  /\ UNCHANGED <<worker_id_queue, error_log_file>>
    /\ UNCHANGED <<inputVars, lockVars, is_dry_run, disks, state_file, mapping_file, dry_run_mapping_file,
                   run, main_pc, planVars, callVars, archive_state>>

\* The copy ends well: the bytes are on the mount (none in a dry run).
CopySucceeds(i) ==
    /\ main_pc \in {"phase1", "shutdown"}
    /\ copy_state[i].status = "placed"
    /\ is_dry_run \/ disks[copy_state[i].dest].f_bavail >= copy_jobs[i].size
    /\ disks' = IF is_dry_run THEN disks
                ELSE Consume(disks, copy_state[i].dest, copy_jobs[i].size)
    /\ copy_state' = [copy_state EXCEPT ![i].status = "succeeded", ![i].wid = 0]
    /\ worker_id_queue' = Append(worker_id_queue, copy_state[i].wid)
    /\ UNCHANGED <<inputVars, lockVars, is_dry_run, logVars, run, main_pc, planVars, dmVars, callVars,
                   archive_state>>

\* A job_wrapper without the finally clause: a failed job keeps its ID.
CopyFailsKeepingId(i) ==
    /\ main_pc \in {"phase1", "shutdown"}
    /\ copy_state[i].status = "placed"
    /\ ~is_dry_run
    /\ copy_state' = [copy_state EXCEPT ![i].status = "failed", ![i].wid = 0]
    /\ error_log_file' = error_log_file \o ErrorRows(copy_jobs[i], "CopyFailed")
    /\ UNCHANGED <<inputVars, lockVars, is_dry_run, disks, state_file, mapping_file, dry_run_mapping_file,
                   run, main_pc, planVars, dmVars, callVars, archive_state, worker_id_queue>>

\* The source is missing or the copy tool fails (also for lack of space).
CopyFails(i) ==
    /\ main_pc \in {"phase1", "shutdown"}
    /\ copy_state[i].status = "placed"
    /\ ~is_dry_run
    /\ copy_state' = [copy_state EXCEPT ![i].status = "failed", ![i].wid = 0]
    /\ worker_id_queue' = Append(worker_id_queue, copy_state[i].wid)
    /\ error_log_file' = error_log_file \o ErrorRows(copy_jobs[i], "CopyFailed")
    /\ UNCHANGED <<inputVars, lockVars, is_dry_run, disks, state_file, mapping_file, dry_run_mapping_file,
                   run, main_pc, planVars, dmVars, callVars, archive_state>>

\* What process.wait() returns when the interrupt ends rsync: rsync's own
\* exit for a signal it caught, or the signal that killed it.
CancelReturnCodes == {20, -2}

\* The test after process.wait(): a CalledProcessError is raised.
rsync_error(return_code, died_with_sigint) ==
    return_code # 0 /\ ~died_with_sigint /\ return_code # -2

\* The interrupt reaches rsync as well (it is in the process group): rsync
\* removes its temporary file and ends; the worker tests the return code.
CopyCancelled(i, return_code) ==
    /\ main_pc = "shutdown"
    /\ copy_state[i].status = "placed"
    /\ ~is_dry_run
    /\ copy_state' = [copy_state EXCEPT
                         ![i].status = IF rsync_error(return_code, FALSE)
                                       THEN "failed" ELSE "succeeded",
                         ![i].wid = 0,
                         ![i].return_code = return_code]
    /\ worker_id_queue' = Append(worker_id_queue, copy_state[i].wid)
    /\ error_log_file' = IF rsync_error(return_code, FALSE)
                         THEN error_log_file \o ErrorRows(copy_jobs[i], "CopyFailed")
                         ELSE error_log_file
    /\ UNCHANGED <<inputVars, lockVars, is_dry_run, disks, state_file, mapping_file,
                   dry_run_mapping_file, run, main_pc, planVars, dmVars, callVars, archive_state>>

\* A main loop that lets the exception of a failed future through and ends.
ReapCopyRaising(i) ==
    /\ main_pc = "phase1"
    /\ copy_state[i].status \in {"succeeded", "failed"}
    /\ IF copy_state[i].status = "succeeded"
       THEN /\ write_log(copy_jobs[i].key, DestPath(copy_state[i].dest, copy_jobs[i]))
            /\ copy_state' = [copy_state EXCEPT ![i].status = "logged", ![i].logged = 1]
            /\ UNCHANGED main_pc
       ELSE /\ main_pc' = "aborted"
            /\ UNCHANGED <<copy_state, logVars>>
    /\ UNCHANGED <<inputVars, lockVars, is_dry_run, disks, run, planVars, dmVars, callVars,
                   archive_state, worker_id_queue>>

\* A main loop that takes only the successful futures out of active_futures.
ReapCopySucceeded(i) ==
    /\ main_pc = "phase1"
    /\ copy_state[i].status = "succeeded"
    /\ write_log(copy_jobs[i].key, DestPath(copy_state[i].dest, copy_jobs[i]))
    /\ copy_state' = [copy_state EXCEPT ![i].status = "logged", ![i].logged = 1]
    /\ UNCHANGED <<inputVars, lockVars, is_dry_run, disks, run, main_pc, planVars, dmVars, callVars,
                   archive_state, worker_id_queue>>

\* The main loop of phase 1 finds a done future: a successful job's key is
\* logged, a failed one is only dropped from active_futures.
ReapCopy(i) ==
    /\ main_pc = "phase1"
    /\ copy_state[i].status \in {"succeeded", "failed"}
    /\ IF copy_state[i].status = "succeeded"
       THEN /\ write_log(copy_jobs[i].key, DestPath(copy_state[i].dest, copy_jobs[i]))
            /\ copy_state' = [copy_state EXCEPT ![i].status = "logged", ![i].logged = 1]
       ELSE /\ copy_state' = [copy_state EXCEPT ![i].status = "reaped"]
            /\ UNCHANGED logVars
    /\ UNCHANGED <<inputVars, lockVars, is_dry_run, disks, run, main_pc, planVars, dmVars, callVars,
                   archive_state, worker_id_queue>>

\* active_futures is empty: phase 2 starts, or main ends.
EndPhase1 ==
    /\ main_pc = "phase1"
    /\ Terminal(copy_state)
    /\ main_pc' = IF archive_jobs # <<>> THEN "phase2" ELSE "done"
    /\ UNCHANGED <<inputVars, lockVars, is_dry_run, disks, logVars, run, planVars, dmVars, callVars, jobVars>>

\* A phase 2 that submits an archive job without waiting for the others.
SubmitArchiveAtOnce(k) ==
    /\ main_pc = "phase2"
    /\ archive_state[k].status = "queued"
    /\ archive_state' = [archive_state EXCEPT ![k].status = "running", ![k].wid = 1]
    /\ UNCHANGED <<inputVars, lockVars, is_dry_run, disks, logVars, run, main_pc, planVars, dmVars,
                   callVars, copy_state, worker_id_queue>>

\* Phase 2 submits the next archive job as worker 1 once the one before it
\* is logged.
SubmitArchive(k) ==
    /\ main_pc = "phase2"
    /\ archive_state[k].status = "queued"
    /\ \A j \in 1..(k - 1) : archive_state[j].status \in {"logged", "reaped"}
    /\ archive_state' = [archive_state EXCEPT ![k].status = "running", ![k].wid = 1]
    /\ UNCHANGED <<inputVars, lockVars, is_dry_run, disks, logVars, run, main_pc, planVars, dmVars,
                   callVars, copy_state, worker_id_queue>>

ResolveArchive(k) ==
    /\ main_pc \in {"phase2", "shutdown"}
    /\ archive_state[k].status = "running"
    /\ LET r == get_current_destination(disks, is_dry_run, strategy, max_concurrent_disks,
                                        active_disk, next_disk_index, archive_jobs[k].size)
       IN /\ active_disk' = r.active_disk
          /\ next_disk_index' = r.next_disk_index
          /\ IF r.disk = NoDisk
             THEN /\ archive_state' = [archive_state EXCEPT ![k].status = "failed"]
                  /\ error_log_file' = error_log_file \o ErrorRows(archive_jobs[k], "NoSpace")
             ELSE /\ archive_state' = [archive_state EXCEPT ![k].status = "placed",
                                                            ![k].dest = r.disk]
                  /\ UNCHANGED error_log_file
    /\ UNCHANGED <<inputVars, lockVars, is_dry_run, disks, state_file, mapping_file, dry_run_mapping_file,
                   run, main_pc, planVars, callVars, copy_state, worker_id_queue>>

\* What archive_sequence_to_destination leaves at dest_tar_path when it
\* returns True: every source file, or ("short") every source file but one
\* that os.path.exists no longer finds, here the first; nothing is written
\* in a dry run.
WrittenTar(dry) == IF dry THEN {"none"} ELSE {"complete", "short"}

\* The source files in a tar.
TarMembers(job, tar) ==
    CASE tar = "complete" -> Range(job.source_files)
      [] tar = "short"    -> Range(Tail(job.source_files))
      [] OTHER            -> {}

\* archive_sequence_to_destination returns True.
ArchiveSucceeds(k) ==
    /\ main_pc \in {"phase2", "shutdown"}
    /\ archive_state[k].status = "placed"
    /\ is_dry_run \/ disks[archive_state[k].dest].f_bavail >= archive_jobs[k].size
    /\ disks' = IF is_dry_run THEN disks
                ELSE Consume(disks, archive_state[k].dest, archive_jobs[k].size)
    /\ \E written \in WrittenTar(is_dry_run) :
          archive_state' = [archive_state EXCEPT ![k].status = "succeeded", ![k].tar = written]
    /\ UNCHANGED <<inputVars, lockVars, is_dry_run, logVars, run, main_pc, planVars, dmVars, callVars,
                   copy_state, worker_id_queue>>

\* What archive_sequence_to_destination leaves at dest_tar_path when it
\* catches an error: nothing if makedirs or tarfile.open failed, the file as
\* far as it was written if tar.add failed (the except clause only logs).
FailedTarLeft == {"none", "partial"}

\* archive_sequence_to_destination returns False and the worker raises.
ArchiveFails(k) ==
    /\ main_pc \in {"phase2", "shutdown"}
    /\ archive_state[k].status = "placed"
    /\ ~is_dry_run
    /\ \E left \in FailedTarLeft :
          archive_state' = [archive_state EXCEPT ![k].status = "failed", ![k].tar = left]
    /\ error_log_file' = error_log_file \o ErrorRows(archive_jobs[k], "ArchiveFailed")
    /\ UNCHANGED <<inputVars, lockVars, is_dry_run, disks, state_file, mapping_file, dry_run_mapping_file,
                   run, main_pc, planVars, dmVars, callVars, copy_state, worker_id_queue>>

\* main logs the next key of a successful archive job (for key in keys:
\* write_log(...)); the job is done when its last key is logged.
LogArchiveKey(k) ==
    /\ main_pc = "phase2"
    /\ archive_state[k].status = "succeeded"
    /\ LET keys == source_keys_to_log(archive_jobs[k])
           n    == archive_state[k].logged + 1
       IN /\ write_log(keys[n], DestPath(archive_state[k].dest, archive_jobs[k]))
          /\ archive_state' = [archive_state EXCEPT
                                  ![k].logged = n,
                                  ![k].status = IF n = Len(keys) THEN "logged" ELSE "succeeded"]
    /\ UNCHANGED <<inputVars, lockVars, is_dry_run, disks, run, main_pc, planVars, dmVars, callVars,
                   copy_state, worker_id_queue>>

ReapArchive(k) ==
    /\ main_pc = "phase2"
    /\ archive_state[k].status = "failed"
    /\ archive_state' = [archive_state EXCEPT ![k].status = "reaped"]
    /\ UNCHANGED <<inputVars, lockVars, is_dry_run, disks, logVars, run, main_pc, planVars, dmVars,
                   callVars, copy_state, worker_id_queue>>

EndPhase2 ==
    /\ main_pc = "phase2"
    /\ Terminal(archive_state)
    /\ main_pc' = "done"
    /\ UNCHANGED <<inputVars, lockVars, is_dry_run, disks, logVars, run, planVars, dmVars, callVars, jobVars>>

\* KeyboardInterrupt in main: the loops end and nothing more is logged; the
\* executor's shutdown(wait=True) lets the submitted futures run.
Interrupt ==
    /\ main_pc \in {"phase1", "phase2"}
    /\ main_pc' = "shutdown"
    /\ UNCHANGED <<inputVars, lockVars, is_dry_run, disks, logVars, run, planVars, dmVars, callVars, jobVars>>

\* The executor has run every submitted future: main returns.
EndShutdown ==
    /\ main_pc = "shutdown"
    /\ \A i \in 1..Len(copy_state) : copy_state[i].status \notin {"queued", "running", "placed"}
    /\ \A k \in 1..Len(archive_state) : archive_state[k].status \notin {"running", "placed"}
    /\ main_pc' = "interrupted"
    /\ UNCHANGED <<inputVars, lockVars, is_dry_run, disks, logVars, run, planVars, dmVars, callVars, jobVars>>

\* The program is started again on the same manifest, with the log files and
\* the mounts as the session before left them.
Rerun ==
    /\ main_pc \in {"done", "interrupted", "aborted"}
    /\ run < MaxRuns
    /\ run' = run + 1
    /\ main_pc' = "start"
    /\ is_dry_run' \in BOOLEAN
    /\ processed_items_keys' = {}
    /\ stats' = NoStats
    /\ copy_jobs' = <<>>
    /\ archive_jobs' = <<>>
    /\ active_disk' = NoDisk
    /\ next_disk_index' = 0
    /\ copy_state' = <<>>
    /\ archive_state' = <<>>
    /\ worker_id_queue' = <<>>
    /\ UNCHANGED <<inputVars, lockVars, disks, logVars, callVars>>

\* The exit status of the process once main has ended at pc: main returns
\* (also from its except KeyboardInterrupt clause) and the interpreter exits
\* with 0; the RuntimeError of the DiskManager is not caught and the
\* interpreter exits with 1.
exit_status(pc) ==
    CASE pc = "done" -> 0
      [] pc = "interrupted" -> 0
      [] pc = "aborted" -> 1

Next ==
    \/ AnalyzeAndPlan
    \/ StartExecution
    \/ \E i \in 1..Len(copy_jobs) : StartCopy(i)
    \/ \E i \in 1..Len(copy_jobs) : ResolveCopy(i)
    \/ \E i \in 1..Len(copy_jobs) : CopySucceeds(i)
    \/ \E i \in 1..Len(copy_jobs) : CopyFails(i)
    \/ \E i \in 1..Len(copy_jobs), return_code \in CancelReturnCodes : CopyCancelled(i, return_code)
    \/ \E i \in 1..Len(copy_jobs) : ReapCopy(i)
    \/ EndPhase1
    \/ \E k \in 1..Len(archive_jobs) : SubmitArchive(k)
    \/ \E k \in 1..Len(archive_jobs) : ResolveArchive(k)
    \/ \E k \in 1..Len(archive_jobs) : ArchiveSucceeds(k)
    \/ \E k \in 1..Len(archive_jobs) : ArchiveFails(k)
    \/ \E k \in 1..Len(archive_jobs) : LogArchiveKey(k)
    \/ \E k \in 1..Len(archive_jobs) : ReapArchive(k)
    \/ EndPhase2
    \/ Interrupt
    \/ EndShutdown
    \/ Rerun

Spec == Init /\ [][Next]_vars

\* The steps of the execution: the main thread's loops and the workers of
\* the pool.
ExecutionStep ==
    \/ StartExecution
    \/ \E i \in 1..Len(copy_jobs) : StartCopy(i)
    \/ \E i \in 1..Len(copy_jobs) : ResolveCopy(i)
    \/ \E i \in 1..Len(copy_jobs) : CopySucceeds(i)
    \/ \E i \in 1..Len(copy_jobs) : CopyFails(i)
    \/ \E i \in 1..Len(copy_jobs) : ReapCopy(i)
    \/ EndPhase1
    \/ \E k \in 1..Len(archive_jobs) : SubmitArchive(k)
    \/ \E k \in 1..Len(archive_jobs) : ResolveArchive(k)
    \/ \E k \in 1..Len(archive_jobs) : ArchiveSucceeds(k)
    \/ \E k \in 1..Len(archive_jobs) : ArchiveFails(k)
    \/ \E k \in 1..Len(archive_jobs) : LogArchiveKey(k)
    \/ \E k \in 1..Len(archive_jobs) : ReapArchive(k)
    \/ EndPhase2

\* One session that nobody interrupts: the executor's threads and the
\* supervisor's loops keep running, so an execution step that can be taken
\* is taken.
SessionStep ==
    \/ AnalyzeAndPlan
    \/ ExecutionStep

SpecUninterrupted == Init /\ [][SessionStep]_vars /\ WF_vars(ExecutionStep)

\* ------------------------------------------------------------------------
\* The log files under file_lock: a line reaches errors.log in two pieces
\* (the buffer of the file object may be flushed anywhere in it)
\* ------------------------------------------------------------------------

\* The messages of the exceptions a worker catches.
ErrorMessages == {"NoSpace", "CopyFailed"}

\* The jobs of both phases: <<"copy", i>> and <<"archive", k>>.
LogJobs ==
    {<<"copy", i>> : i \in 1..Len(copy_jobs)} \cup {<<"archive", k>> : k \in 1..Len(archive_jobs)}

PlannedJob(j) == IF j[1] = "copy" THEN copy_jobs[j[2]] ELSE archive_jobs[j[2]]

JobState(j) == IF j[1] = "copy" THEN copy_state[j[2]] ELSE archive_state[j[2]]

\* The future of job j gets the state st.
SetJobState(j, st) ==
    IF j[1] = "copy"
    THEN copy_state' = [copy_state EXCEPT ![j[2]] = st] /\ UNCHANGED archive_state
    ELSE archive_state' = [archive_state EXCEPT ![j[2]] = st] /\ UNCHANGED copy_state

\* job_wrapper releases the worker ID of a copy job; phase 2 has none.
ReleaseWorkerId(j) ==
    IF j[1] = "copy"
    THEN worker_id_queue' = Append(worker_id_queue, copy_state[j[2]].wid)
    ELSE UNCHANGED worker_id_queue

\* What f.write sends to the file for the rows: every line in two pieces.
LinePieces(rows) ==
    [n \in 1..(Len(rows) + Len(rows)) |->
        [row |-> rows[(n + 1) \div 2], part |-> IF n % 2 = 1 THEN "head" ELSE "tail"]]

InitLog ==
    /\ manifest \in SessionManifests
    /\ input_mode = "csv"
    /\ program = "copeer"
    /\ strategy = "fill"
    /\ max_concurrent_disks = 1
    /\ is_dry_run = FALSE
    /\ disks \in SessionDisks
    /\ state_file = <<>>
    /\ mapping_file = <<>>
    /\ dry_run_mapping_file = <<>>
    /\ error_log_file = <<>>
    /\ run = 1
    /\ processed_items_keys = {}
    /\ stats = csv_stats(manifest)
    /\ copy_jobs \in SortedOrders(copy_jobs_all(manifest, {}))
    /\ archive_jobs = archive_jobs_to_process(manifest, {})
    /\ main_pc = IF copy_jobs # <<>> THEN "phase1" ELSE "phase2"
    /\ active_disk = mount_points[1]
    /\ next_disk_index = 0
    /\ dm_job_size = NoCall
    /\ dm_result = NoDisk
    /\ source_root = DefaultSourceRoot
    /\ destination_root = DefaultDestinationRoot
    /\ last_dest_path = NoDestPath
    /\ copy_state = [i \in 1..Len(copy_jobs) |-> QueuedJob]
    /\ archive_state = [k \in 1..Len(archive_jobs) |-> QueuedJob]
    /\ worker_id_queue = [i \in 1..Threads |-> i]
    /\ file_lock = Free
    /\ error_pending = [j \in LogJobs |-> <<>>]

\* process_job_worker returns the keys and dest_path of a job it has done.
WorkerReturns(j) ==
    /\ JobState(j).status = "running"
    /\ SetJobState(j, [JobState(j) EXCEPT !.status = "succeeded", !.dest = active_disk, !.wid = 0])
    /\ ReleaseWorkerId(j)
    /\ UNCHANGED <<inputVars, lockVars, is_dry_run, disks, logVars, run, main_pc, planVars, dmVars,
                   callVars>>

\* Something in the try block raises: the handler has the job's rows to write.
WorkerRaises(j, msg) ==
    /\ JobState(j).status = "running"
    /\ SetJobState(j, [JobState(j) EXCEPT !.status = "caught"])
    /\ error_pending' = [error_pending EXCEPT ![j] = LinePieces(ErrorRows(PlannedJob(j), msg))]
    /\ UNCHANGED <<inputVars, file_lock, is_dry_run, disks, logVars, run, main_pc, planVars,
                   dmVars, callVars, worker_id_queue>>

\* A handler that opens errors.log without taking file_lock.
OpenWithoutLock(j) ==
    /\ JobState(j).status = "caught"
    /\ file_lock' = j
    /\ SetJobState(j, [JobState(j) EXCEPT !.status = "writing"])
    /\ UNCHANGED <<inputVars, error_pending, is_dry_run, disks, logVars, run, main_pc, planVars,
                   dmVars, callVars, worker_id_queue>>

\* with file_lock: the handler waits until the lock is free and takes it.
AcquireFileLock(j) ==
    /\ JobState(j).status = "caught"
    /\ file_lock = Free
    /\ file_lock' = j
    /\ SetJobState(j, [JobState(j) EXCEPT !.status = "writing"])
    /\ UNCHANGED <<inputVars, error_pending, is_dry_run, disks, logVars, run, main_pc, planVars,
                   dmVars, callVars, worker_id_queue>>

\* The next piece of the handler's output reaches errors.log.
WriteErrorPiece(j) ==
    /\ JobState(j).status = "writing"
    /\ error_pending[j] # <<>>
    /\ error_log_file' = Append(error_log_file, Head(error_pending[j]))
    /\ error_pending' = [error_pending EXCEPT ![j] = Tail(@)]
    /\ UNCHANGED <<inputVars, file_lock, is_dry_run, disks, state_file, mapping_file,
                   dry_run_mapping_file, run, main_pc, planVars, dmVars, callVars, jobVars>>

\* The file is closed, the with block ends and the worker returns
\* (None, 0, None, None).
ReleaseFileLock(j) ==
    /\ JobState(j).status = "writing"
    /\ error_pending[j] = <<>>
    /\ file_lock' = Free
    /\ SetJobState(j, [JobState(j) EXCEPT !.status = "failed", !.wid = 0])
    /\ ReleaseWorkerId(j)
    /\ UNCHANGED <<inputVars, error_pending, is_dry_run, disks, logVars, run, main_pc, planVars,
                   dmVars, callVars>>

\* main's write_log takes file_lock as well.
ReapCopyUnderLock(i) ==
    /\ copy_state[i].status = "succeeded" => file_lock = Free
    /\ ReapCopy(i)

LogArchiveKeyUnderLock(k) ==
    /\ file_lock = Free
    /\ LogArchiveKey(k)

NextLog ==
    \/ \E i \in 1..Len(copy_jobs) : StartCopy(i)
    \/ \E k \in 1..Len(archive_jobs) : SubmitArchive(k)
    \/ \E j \in LogJobs : WorkerReturns(j)
    \/ \E j \in LogJobs, msg \in ErrorMessages : WorkerRaises(j, msg)
    \/ \E j \in LogJobs : AcquireFileLock(j)
    \/ \E j \in LogJobs : WriteErrorPiece(j)
    \/ \E j \in LogJobs : ReleaseFileLock(j)
    \/ \E i \in 1..Len(copy_jobs) : ReapCopyUnderLock(i)
    \/ EndPhase1
    \/ \E k \in 1..Len(archive_jobs) : LogArchiveKeyUnderLock(k)
    \/ \E k \in 1..Len(archive_jobs) : ReapArchive(k)
    \/ EndPhase2

SpecLog == InitLog /\ [][NextLog]_vars

\* ------------------------------------------------------------------------
\* The state row and the mapping row of a key, one append at a time:
\* write_log of copeer.py and write_mapping_and_state of cooper1.py
\* ------------------------------------------------------------------------

Programs == {"copeer", "cooper1"}

\* A session after planning; cooper1.py copies files only.
InitRows ==
    /\ manifest \in SessionManifests
    /\ input_mode = "csv"
    /\ program \in Programs
    /\ strategy = "fill"
    /\ max_concurrent_disks = 1
    /\ is_dry_run = FALSE
    /\ disks \in SessionDisks
    /\ state_file = <<>>
    /\ mapping_file = <<>>
    /\ dry_run_mapping_file = <<>>
    /\ error_log_file = <<>>
    /\ run = 1
    /\ processed_items_keys = {}
    /\ stats = csv_stats(manifest)
    /\ copy_jobs \in SortedOrders(copy_jobs_all(manifest, {}))
    /\ archive_jobs = IF program = "copeer" THEN archive_jobs_to_process(manifest, {}) ELSE <<>>
    /\ main_pc = IF copy_jobs # <<>> THEN "phase1" ELSE "phase2"
    /\ active_disk = mount_points[1]
    /\ next_disk_index = 0
    /\ dm_job_size = NoCall
    /\ dm_result = NoDisk
    /\ source_root = DefaultSourceRoot
    /\ destination_root = DefaultDestinationRoot
    /\ last_dest_path = NoDestPath
    /\ copy_state = [i \in 1..Len(copy_jobs) |-> QueuedJob]
    /\ archive_state = [k \in 1..Len(archive_jobs) |-> QueuedJob]
    /\ worker_id_queue = [i \in 1..Threads |-> i]
    /\ file_lock = Free
    /\ error_pending = [j \in LogJobs |-> <<>>]

\* The loop of main that logs the jobs of j's phase is running.
MainLogs(j) == main_pc = IF j[1] = "copy" THEN "phase1" ELSE "phase2"

\* The key main passes to its next write_log for job j.
NextKey(j) == source_keys_to_log(PlannedJob(j))[JobState(j).logged + 1]

\* write_log, first half: main takes file_lock and, outside a dry run,
\* appends the key to the state file.
AppendStateRow(j) ==
    /\ program = "copeer"
    /\ MainLogs(j)
    /\ JobState(j).status = "succeeded"
    /\ file_lock = Free
    /\ file_lock' = j
    /\ state_file' = IF ~is_dry_run
                     THEN Append(state_file, [key |-> NextKey(j), run |-> run])
                     ELSE state_file
    /\ SetJobState(j, [JobState(j) EXCEPT !.status = "state_appended"])
    /\ UNCHANGED <<inputVars, error_pending, is_dry_run, disks, mapping_file, dry_run_mapping_file,
                   error_log_file, run, main_pc, planVars, dmVars, callVars, worker_id_queue>>

\* write_log, second half: the mapping row is appended and the with block
\* ends; the job is done when its last key is logged.
AppendMappingRow(j) ==
    /\ program = "copeer"
    /\ MainLogs(j)
    /\ JobState(j).status = "state_appended"
    /\ mapping_file' = Append(mapping_file,
                              [key |-> NextKey(j),
                               dest |-> DestPath(JobState(j).dest, PlannedJob(j)),
                               run |-> run])
    /\ file_lock' = Free
    /\ LET n == JobState(j).logged + 1
       IN SetJobState(j, [JobState(j) EXCEPT
                             !.logged = n,
                             !.status = IF n = Len(source_keys_to_log(PlannedJob(j)))
                                        THEN "logged" ELSE "succeeded"])
    /\ UNCHANGED <<inputVars, error_pending, is_dry_run, disks, state_file, dry_run_mapping_file,
                   error_log_file, run, main_pc, planVars, dmVars, callVars, worker_id_queue>>

\* KeyboardInterrupt in main, also between the two appends of write_log:
\* the with block releases file_lock and main logs nothing more.
InterruptRows ==
    /\ program = "copeer"
    /\ main_pc \in {"phase1", "phase2"}
    /\ main_pc' = "shutdown"
    /\ file_lock' = IF \E j \in LogJobs : j = file_lock /\ JobState(j).status = "state_appended"
                    THEN Free ELSE file_lock
    /\ UNCHANGED <<inputVars, error_pending, is_dry_run, disks, logVars, run, planVars, dmVars,
                   callVars, jobVars>>

\* write_mapping_and_state of cooper1.py, first half: the worker whose rsync
\* has ended well takes file_lock and appends the mapping row.
MappingRowFirst(i) ==
    /\ program = "cooper1"
    /\ copy_state[i].status = "succeeded"
    /\ file_lock = Free
    /\ file_lock' = <<"copy", i>>
    /\ mapping_file' = Append(mapping_file,
                              [key |-> copy_jobs[i].key,
                               dest |-> DestPath(copy_state[i].dest, copy_jobs[i]),
                               run |-> run])
    /\ copy_state' = [copy_state EXCEPT ![i].status = "mapping_appended"]
    /\ UNCHANGED <<inputVars, error_pending, is_dry_run, disks, state_file, dry_run_mapping_file,
                   error_log_file, run, main_pc, planVars, dmVars, callVars, archive_state,
                   worker_id_queue>>

\* write_mapping_and_state, second half: the state row, then the lock is
\* released.
StateRowSecond(i) ==
    /\ program = "cooper1"
    /\ copy_state[i].status = "mapping_appended"
    /\ state_file' = Append(state_file, [key |-> copy_jobs[i].key, run |-> run])
    /\ file_lock' = Free
    /\ copy_state' = [copy_state EXCEPT ![i].status = "logged", ![i].logged = 1]
    /\ UNCHANGED <<inputVars, error_pending, is_dry_run, disks, mapping_file, dry_run_mapping_file,
                   error_log_file, run, main_pc, planVars, dmVars, callVars, archive_state,
                   worker_id_queue>>

NextRows ==
    \/ \E i \in 1..Len(copy_jobs) : StartCopy(i)
    \/ \E k \in 1..Len(archive_jobs) : SubmitArchive(k)
    \/ \E j \in LogJobs : WorkerReturns(j)
    \/ \E j \in LogJobs, msg \in ErrorMessages : program = "copeer" /\ WorkerRaises(j, msg)
    \/ \E j \in LogJobs : AcquireFileLock(j)
    \/ \E j \in LogJobs : WriteErrorPiece(j)
    \/ \E j \in LogJobs : ReleaseFileLock(j)
    \/ \E j \in LogJobs : AppendStateRow(j)
    \/ \E j \in LogJobs : AppendMappingRow(j)
    \/ \E i \in 1..Len(copy_jobs) : copy_state[i].status = "failed" /\ ReapCopy(i)
    \/ \E k \in 1..Len(archive_jobs) : ReapArchive(k)
    \/ \E i \in 1..Len(copy_jobs) : MappingRowFirst(i)
    \/ \E i \in 1..Len(copy_jobs) : StateRowSecond(i)
    \/ InterruptRows
    \/ EndPhase1
    \/ EndPhase2

SpecRows == InitRows /\ [][NextRows]_vars

\* ------------------------------------------------------------------------
\* dest_path for the keys and roots a configuration can have
\* ------------------------------------------------------------------------

\* source_root: not set, /src, /src/d1.
SourceRoots ==
    { [given |-> FALSE, path |-> <<>>],
      DefaultSourceRoot,
      [given |-> TRUE, path |-> <<<<"s", "r", "c">>, <<"d", "1">>>>] }

\* destination_root: / and /out.
DestinationRoots == {DefaultDestinationRoot, <<<<"o", "u", "t">>>>}

\* Keys under a source root, beside it with a name that begins like it
\* (/src2, /src/d10), and elsewhere.
SourceKeys ==
    { AbsPath(<<<<"s", "r", "c">>, <<"x">>>>),
      AbsPath(<<<<"s", "r", "c">>, <<"d", "1">>, <<"x">>>>),
      AbsPath(<<<<"s", "r", "c">>, <<"d", "1", "0">>, <<"x">>>>),
      AbsPath(<<<<"s", "r", "c", "2">>, <<"x">>>>),
      AbsPath(<<<<"s", "r", "c", "2">>, <<"d", "1">>, <<"x">>>>),
      AbsPath(<<<<"v", "a", "r">>, <<"x">>>>) }

InitDest ==
    /\ manifest = <<>>
    /\ input_mode = "csv"
    /\ program = "copeer"
    /\ strategy = "fill"
    /\ max_concurrent_disks = 1
    /\ source_root \in SourceRoots
    /\ destination_root \in DestinationRoots
    /\ is_dry_run = FALSE
    /\ disks = DisksOf(RoomyDisk, RoomyDisk, RoomyDisk)
    /\ state_file = <<>>
    /\ mapping_file = <<>>
    /\ dry_run_mapping_file = <<>>
    /\ error_log_file = <<>>
    /\ run = 1
    /\ main_pc = "phase1"
    /\ processed_items_keys = {}
    /\ stats = NoStats
    /\ copy_jobs = <<>>
    /\ archive_jobs = <<>>
    /\ active_disk = mount_points[1]
    /\ next_disk_index = 0
    /\ dm_job_size = NoCall
    /\ dm_result = "None"
    /\ last_dest_path = NoDestPath
    /\ copy_state = <<>>
    /\ archive_state = <<>>
    /\ worker_id_queue = <<>>
    /\ file_lock = Free
    /\ error_pending = NoPending

\* A worker derives dest_path for a job with this key, sent to mount m.
DeriveDestPath(key, m) ==
    /\ last_dest_path' = [called |-> TRUE, key |-> key, mount |-> m,
                          path |-> dest_path_of(m, source_root, destination_root, key)]
    /\ UNCHANGED <<inputVars, lockVars, is_dry_run, disks, logVars, run, main_pc, planVars, dmVars,
                   dm_job_size, dm_result, jobVars>>

NextDest == \E key \in SourceKeys, m \in Mounts : DeriveDestPath(key, m)

SpecDest == InitDest /\ [][NextDest]_vars

\* ------------------------------------------------------------------------
\* The auditor (copeer_auditor.py) on the files the sessions leave
\* ------------------------------------------------------------------------

\* What csv.reader yields for a mapping file: (source, destination) per row.
csv_rows(file) == [p \in 1..Len(file) |-> <<file[p].key, file[p].dest>>]

\* handle_merge on one file: next(reader) drops the first row, the rest are
\* the file's rows (every row has its two cells).
merge_rows(file) == IF file = <<>> THEN <<>> ELSE Tail(csv_rows(file))

\* handle_merge: all_unique_mappings and file_stats for the files found.
handle_merge(files) ==
    [all_unique_mappings |-> UNION {Range(merge_rows(files[i])) : i \in 1..Len(files)},
     file_stats |-> [i \in 1..Len(files) |-> Len(merge_rows(files[i]))]]

\* handle_analyze reads the rows of five columns that are no directory.
RowIsListed(r) == r.ncols >= 5 /\ ~ContainsDirectory(r.ftype)

\* source_list_paths_rel, in file order.
source_list_rows(rows) == Filter(rows, RowIsListed)

\* The last element of a non-empty sequence that satisfies Test: what a
\* dict filled in order keeps for a key.
LastRow(listed, Test(_)) ==
    listed[CHOOSE i \in 1..Len(listed) :
              Test(listed[i]) /\ \A j \in 1..Len(listed) : Test(listed[j]) => j <= i]

\* source_data_map: path -> the last row read with that path.
source_data_map(rows) ==
    LET listed == source_list_rows(rows)
    IN [p \in {PathOf(listed[i]) : i \in 1..Len(listed)} |->
           LastRow(listed, LAMBDA r : PathOf(r) = p)]

\* source_map of find_source_root: basename -> the last path with it.
source_map(rows) ==
    LET listed == source_list_rows(rows)
    IN [b \in {listed[i].name : i \in 1..Len(listed)} |->
           PathOf(LastRow(listed, LAMBDA r : r.name = b))]

\* find_source_root returns a root: some path of the state file has a
\* basename of the manifest and ends with the manifest path kept for it.
find_source_root(state_file_paths, rows) ==
    \E abs_path \in state_file_paths :
        /\ abs_path.name \in DOMAIN source_map(rows)
        /\ source_map(rows)[abs_path.name] = abs_path

\* The rows handle_analyze writes to missing_for_copy.csv. Without a root the
\* manifest paths stay relative and none of them is in the state file.
missing_for_copy(state_file_paths, rows) ==
    LET intended == DOMAIN source_data_map(rows)
        missing  == IF find_source_root(state_file_paths, rows)
                    THEN intended \ state_file_paths
                    ELSE intended
    IN {source_data_map(rows)[p] : p \in missing}

\* ------------------------------------------------------------------------
\* Properties of the planner
\* ------------------------------------------------------------------------

Planned == main_pc # "start"

Found == FoundRows(manifest)

\* The groups of one directory: files sharing (prefix, lower-cased extension)
\* with a configured image extension.
GroupsOfDir(d) ==
    LET ts == DirTuples(Found, d)
    IN {GroupTuples(ts, k) : k \in Range(GroupKeys(ts))}

GroupFrames(G) == {G[i].frame : i \in 1..Len(G)}

ExpectedFrames(G) ==
    LET fr == GroupFrames(G)
        mx == CHOOSE a \in fr : \A b \in fr : b <= a
        mn == CHOOSE a \in fr : \A b \in fr : a <= b
    IN mx - mn + 1

MissingFrames(G) == ExpectedFrames(G) - Len(G)

\* count >= min_files_for_sequence and missing <= max(1, floor(0.05 * expected))
LawPromotes(G) ==
    /\ Len(G) >= MinFiles
    /\ MissingFrames(G) <= Max(1, (ExpectedFrames(G) * 5) \div 100)

\* find_sequences emitted a sequence job whose members are the files of G.
EmittedFor(d, G) ==
    LET seqs == find_sequences(Found).all_sequences
    IN \E i \in 1..Len(seqs) :
          /\ seqs[i].dir_path = d
          /\ Len(seqs[i].source_files) = Len(G)
          /\ Range(seqs[i].source_files) = {G[k].path : k \in 1..Len(G)}

\* C4: find_sequences emits a sequence job for a group exactly when the group
\* has at least min_files_for_sequence files and at most
\* max(1, floor(0.05 * expected)) missing frames.
SequencePromotionLaw ==
    Planned => \A d \in Range(DirOrder(Found)) : \A G \in GroupsOfDir(d) :
                  EmittedFor(d, G) <=> LawPromotes(G)

CopyKeys == {copy_jobs[i].key : i \in 1..Len(copy_jobs)}

\* The members of the groups find_sequences promoted.
PromotedMembers ==
    LET seqs == find_sequences(Found).all_sequences
    IN UNION {Range(seqs[i].source_files) : i \in 1..Len(seqs)}

\* C5: no member of an emitted sequence job is the key of a copy job, and
\* every found file that is neither a member of a promoted group nor in the
\* state log is the key of exactly one copy job.
PlanPartition ==
    Planned =>
      /\ \A i \in 1..Len(archive_jobs) : Range(archive_jobs[i].source_files) \cap CopyKeys = {}
      /\ \A i \in 1..Len(Found) :
            LET p == PathOf(Found[i])
            IN (p \notin PromotedMembers /\ p \notin processed_items_keys)
                  => Cardinality({j \in 1..Len(copy_jobs) : copy_jobs[j].key = p}) = 1

\* A plan with an archive job, a copy job, a file skipped because the state
\* log holds it, and a path that two rows of the manifest name.
PlanPartitionWitness ==
    /\ main_pc = "planned"
    /\ archive_jobs # <<>>
    /\ copy_jobs # <<>>
    /\ \E i \in 1..Len(Found) :
          PathOf(Found[i]) \in processed_items_keys /\ PathOf(Found[i]) \notin PromotedMembers
    /\ \E i, j \in 1..Len(Found) :
          i # j /\ PathOf(Found[i]) = PathOf(Found[j]) /\ PathOf(Found[i]) \in CopyKeys

\* ------------------------------------------------------------------------
\* Properties of the disk manager
\* ------------------------------------------------------------------------

Returned == main_pc = "returned"

\* C6: a volume get_current_destination returns outside dry-run exists, is
\* used strictly below the threshold and has strictly more free bytes than
\* the job's size, at the time of the call.
ReturnedVolumeSuitable ==
    (Returned /\ ~is_dry_run /\ dm_result # NoDisk) =>
        /\ disks[dm_result].exists
        /\ RoundedPercent(disks[dm_result].f_blocks - disks[dm_result].f_bfree,
                          disks[dm_result].f_blocks) < threshold
        /\ disks[dm_result].f_bavail > dm_job_size

\* A call that passed over a volume exactly at the threshold and one whose
\* free space equals the job's size.
ReturnedVolumeSuitableWitness ==
    /\ Returned /\ ~is_dry_run
    /\ dm_result = "C"
    /\ disks["A"] = ThresholdDisk
    /\ disks["B"].exists /\ disks["B"].f_bavail = dm_job_size

PreferredSuitable ==
    \E m \in Range(preferred_pool(max_concurrent_disks)) :
        is_disk_suitable(disks, is_dry_run, m, dm_job_size)

\* C8: under round_robin, if a volume of the preferred pool is suitable for
\* the job the returned volume is in the pool; a fallback volume is returned
\* only when no preferred volume is suitable.
RoundRobinPreference ==
    (Returned /\ strategy = "round_robin") =>
        /\ PreferredSuitable => dm_result \in Range(preferred_pool(max_concurrent_disks))
        /\ dm_result \in Range(fallback_disks(max_concurrent_disks)) => ~PreferredSuitable

\* The second preferred volume is returned although the first is unsuitable
\* and a fallback volume is suitable too.
RoundRobinPreferenceWitness ==
    /\ Returned /\ strategy = "round_robin" /\ ~is_dry_run
    /\ max_concurrent_disks = 2
    /\ dm_result = "B"
    /\ ~is_disk_suitable(disks, is_dry_run, "A", dm_job_size)
    /\ is_disk_suitable(disks, is_dry_run, "C", dm_job_size)

\* A step that is a call of get_current_destination under fill.
FillCallStep == strategy = "fill" /\ main_pc \in {"ready", "returned"} /\ main_pc' = "returned"

\* C9: under fill, get_current_destination returns active_disk whenever it
\* is still suitable for the job; otherwise it makes the first suitable
\* mount in mount_points order the active disk and returns it; the initial
\* active disk is the first suitable mount. So with an unsuitable first
\* mount A and a suitable B, jobs go to B and never to A.
FillStrategy ==
    [][/\ FillCallStep =>
            IF is_disk_suitable(disks, is_dry_run, active_disk, dm_job_size')
            THEN dm_result' = active_disk /\ active_disk' = active_disk
            ELSE /\ dm_result' = FirstSuitable(disks, is_dry_run, mount_points, dm_job_size')
                 /\ dm_result' # NoDisk => active_disk' = dm_result'
       /\ (main_pc = "new" /\ main_pc' = "ready") =>
            active_disk' = FirstSuitable(disks, is_dry_run, mount_points, 0)
       /\ (FillCallStep /\ ~is_disk_suitable(disks, is_dry_run, "A", dm_job_size')
              /\ active_disk = "B" /\ is_disk_suitable(disks, is_dry_run, "B", dm_job_size'))
            => dm_result' = "B"
      ]_vars

\* A is full, B was selected at the start and a job was sent to B.
FillStrategyWitness ==
    /\ Returned /\ strategy = "fill" /\ ~is_dry_run
    /\ disks["A"] = FullDisk
    /\ dm_result = "B" /\ active_disk = "B"

\* ------------------------------------------------------------------------
\* Properties of sessions
\* ------------------------------------------------------------------------

StateRows == DOMAIN state_file

\* The keys the state log held when the current session started.
PriorStateKeys == {state_file[r].key : r \in {q \in StateRows : state_file[q].run < run}}

StateKeys == {state_file[r].key : r \in StateRows}

\* The keys of the found files that belong to no promoted group.
SingleFileKeys == {PathOf(Found[i]) : i \in 1..Len(Found)} \ PromotedMembers

\* C1: a file whose key is in the state log when a session starts gets no
\* copy job and is never dispatched in that session, and over the sessions
\* the state log gets one row per file.
FileResume ==
    /\ \A i \in 1..Len(copy_jobs) : copy_jobs[i].key \notin PriorStateKeys
    /\ \A i \in 1..Len(copy_state) :
          copy_state[i].status # "queued" => copy_jobs[i].key \notin PriorStateKeys
    /\ \A q, r \in StateRows :
          (q # r /\ state_file[q].key = state_file[r].key)
              => state_file[q].key \notin SingleFileKeys

\* The second session after a first one that was interrupted after its first
\* successful copy: it planned and processed the remaining file only, and
\* the state log has one row for each of the two files.
FileResumeWitness ==
    /\ run = 2 /\ ~is_dry_run
    /\ error_log_file = <<>>
    /\ Len(copy_jobs) = 1 /\ Len(copy_state) = 1 /\ copy_state[1].status = "logged"
    /\ Cardinality({r \in StateRows : state_file[r].run = 1}) = 1
    /\ \E q, r \in StateRows :
          /\ state_file[q].run = 1 /\ state_file[r].run = 2
          /\ {state_file[q].key, state_file[r].key} = SingleFileKeys
          /\ state_file[r].key = copy_jobs[1].key
    /\ Cardinality({r \in StateRows : state_file[r].key \in SingleFileKeys}) = 2

\* C2: once every member of a sequence has a state row from an earlier
\* session, planning the same manifest emits no archive job for the sequence
\* and no copy job for a member.
SequenceResume ==
    Planned =>
        /\ \A k \in 1..Len(archive_jobs) :
              ~(Range(archive_jobs[k].source_files) \subseteq PriorStateKeys)
        /\ \A i \in 1..Len(copy_jobs) :
              copy_jobs[i].key \in PromotedMembers => copy_jobs[i].key \notin PriorStateKeys

\* C3: when a complete session without failures follows an interrupted one
\* on the same manifest, the state log holds the keys one uninterrupted
\* session produces, and the second session processed no key the first had
\* completed.
Resumability ==
    (run = 2 /\ main_pc = "done" /\ ~is_dry_run /\ error_log_file = <<>>) =>
        /\ StateKeys = {PathOf(Found[i]) : i \in 1..Len(Found)}
        /\ \A q, r \in StateRows :
              state_file[q].key = state_file[r].key => state_file[q].run = state_file[r].run

\* A step in which copy job i gets its destination from the disk manager.
CopyPlaced(i) ==
    /\ i \in DOMAIN copy_state'
    /\ copy_state[i].status = "running"
    /\ copy_state'[i].status = "placed"

\* C7 (as the code has it): the volume a phase-1 dispatch gets is suitable
\* for that job when its own call is made; the calls are serialised, but
\* nothing is reserved for the jobs placed before.
DispatchSuitableAtCall ==
    [][\A i \in 1..Len(copy_state) :
          CopyPlaced(i) =>
              /\ copy_state'[i].dest \in Mounts
              /\ is_disk_suitable(disks, is_dry_run, copy_state'[i].dest, copy_jobs[i].size)
      ]_vars

\* Two copy jobs are in flight on one volume.
PlacedTogether(i, j) ==
    /\ i # j
    /\ copy_state[i].status = "placed" /\ copy_state[j].status = "placed"
    /\ copy_state[i].dest = copy_state[j].dest

\* Two concurrent copy jobs are placed on a volume that cannot hold both.
DispatchSuitableAtCallWitness ==
    /\ ~is_dry_run
    /\ \E i, j \in 1..Len(copy_state) :
          /\ PlacedTogether(i, j)
          /\ disks[copy_state[i].dest].f_bavail < copy_jobs[i].size + copy_jobs[j].size

\* C7 (as stated): two concurrent phase-1 jobs are never both placed on a
\* volume whose free space cannot hold both.
NoOverCommit ==
    ~is_dry_run =>
        \A i, j \in 1..Len(copy_state) :
            PlacedTogether(i, j) =>
                disks[copy_state[i].dest].f_bavail >= copy_jobs[i].size + copy_jobs[j].size

NoVolumeSuitable(size) == \A m \in Mounts : ~is_disk_suitable(disks, is_dry_run, m, size)

\* A step in which job i of the list st leaves get_current_destination.
Resolved(st, stNext, i) ==
    /\ i \in DOMAIN stNext
    /\ st[i].status = "running"
    /\ stNext[i].status # "running"

NoSpaceRows(keys) == [n \in 1..Len(keys) |-> [key |-> keys[n], msg |-> "NoSpace", run |-> run]]

\* What a step leaves alone when a job fails for lack of space.
SessionGoesOn ==
    /\ state_file' = state_file
    /\ active_disk' = active_disk
    /\ next_disk_index' = next_disk_index
    /\ main_pc' = main_pc
    /\ copy_jobs' = copy_jobs
    /\ archive_jobs' = archive_jobs

\* Job i of the list failed and has no state row from this session.
FailedWithoutStateRow(stNext, jobs, i) ==
    stNext[i].status \in {"failed", "reaped"} =>
        \A r \in DOMAIN state_file' :
            state_file'[r].run = run' =>
                state_file'[r].key \notin Range(source_keys_to_log(jobs[i]))

\* C10: when no volume is suitable for a job's size, that job fails with
\* its rows in the error log and without a state row, active_disk and
\* next_disk_index stay as they were, and the other jobs of the session
\* stay as they were, to be dispatched.
OutOfSpacePerJob ==
    [][/\ \A i \in 1..Len(copy_state) :
            (Resolved(copy_state, copy_state', i) /\ NoVolumeSuitable(copy_jobs[i].size)) =>
                /\ copy_state'[i].status = "failed"
                /\ error_log_file' = error_log_file \o NoSpaceRows(<<copy_jobs[i].key>>)
                /\ SessionGoesOn
                /\ \A j \in 1..Len(copy_state) : j # i => copy_state'[j] = copy_state[j]
                /\ archive_state' = archive_state
                /\ worker_id_queue' = Append(worker_id_queue, copy_state[i].wid)
       /\ \A k \in 1..Len(archive_state) :
            (Resolved(archive_state, archive_state', k)
                /\ NoVolumeSuitable(archive_jobs[k].size)) =>
                /\ archive_state'[k].status = "failed"
                /\ error_log_file' = error_log_file \o NoSpaceRows(archive_jobs[k].source_files)
                /\ SessionGoesOn
                /\ \A j \in 1..Len(archive_state) : j # k => archive_state'[j] = archive_state[j]
                /\ copy_state' = copy_state
       /\ \A i \in DOMAIN copy_state' : FailedWithoutStateRow(copy_state', copy_jobs', i)
       /\ \A k \in DOMAIN archive_state' : FailedWithoutStateRow(archive_state', archive_jobs', k)
      ]_vars

\* A copy job failed for lack of space, its row is in the error log, and a
\* job after it in the queue was copied and logged in the same session.
OutOfSpacePerJobWitness ==
    /\ ~is_dry_run
    /\ \E i, j \in 1..Len(copy_state) :
          /\ i < j
          /\ copy_state[i].status = "reaped"
          /\ \E r \in DOMAIN error_log_file :
                error_log_file[r] = [key |-> copy_jobs[i].key, msg |-> "NoSpace", run |-> run]
          /\ copy_state[j].status = "logged"
          /\ \E r \in StateRows : state_file[r] = [key |-> copy_jobs[j].key, run |-> run]

\* ------------------------------------------------------------------------
\* Properties of the logs
\* ------------------------------------------------------------------------

\* The number of state rows of the current session that hold key.
StateRowCount(key) ==
    Cardinality({r \in StateRows : state_file[r].run = run /\ state_file[r].key = key})

\* The paths the jobs of the current session stand for.
SessionKeys ==
    {copy_jobs[i].key : i \in 1..Len(copy_jobs)}
        \cup UNION {Range(archive_jobs[k].source_files) : k \in 1..Len(archive_jobs)}

\* A session outside dry-run that ran both phases to their end.
CompleteRealSession ==
    /\ main_pc = "done" /\ ~is_dry_run
    /\ Len(copy_state) = Len(copy_jobs) /\ Len(archive_state) = Len(archive_jobs)

\* C11: a session outside dry-run that was not interrupted leaves one state
\* row for every copy job that succeeded, one for every member of every
\* archive job that succeeded, none for a job that failed and no other row;
\* and a step that appends to the state log is a step of the supervisor,
\* appending the one row of one key of a finished job.
StateLogIntegrity ==
    /\ [](CompleteRealSession =>
            /\ \A i \in 1..Len(copy_jobs) :
                  /\ copy_state[i].status \in {"logged", "reaped"}
                  /\ StateRowCount(copy_jobs[i].key)
                        = IF copy_state[i].status = "logged" THEN 1 ELSE 0
            /\ \A k \in 1..Len(archive_jobs) :
                  /\ archive_state[k].status \in {"logged", "reaped"}
                  /\ \A m \in Range(archive_jobs[k].source_files) :
                        StateRowCount(m) = IF archive_state[k].status = "logged" THEN 1 ELSE 0
            /\ \A r \in StateRows : state_file[r].run = run => state_file[r].key \in SessionKeys)
    /\ [][state_file' # state_file =>
            /\ main_pc \in {"phase1", "phase2"}
            /\ Len(state_file') = Len(state_file) + 1
            /\ SubSeq(state_file', 1, Len(state_file)) = state_file
            /\ \/ \E i \in 1..Len(copy_jobs) :
                     /\ copy_state[i].status = "succeeded"
                     /\ state_file'[Len(state_file')] = [key |-> copy_jobs[i].key, run |-> run]
               \/ \E k \in 1..Len(archive_jobs) :
                     /\ archive_state[k].status = "succeeded"
                     /\ state_file'[Len(state_file')].run = run
                     /\ state_file'[Len(state_file')].key \in Range(archive_jobs[k].source_files)
       ]_vars

\* A complete session in which a copy job failed, another was copied and a
\* sequence was archived.
StateLogIntegrityWitness ==
    /\ CompleteRealSession
    /\ \E i, j \in 1..Len(copy_jobs) :
          copy_state[i].status = "reaped" /\ copy_state[j].status = "logged"
    /\ \E k \in 1..Len(archive_jobs) :
          /\ archive_state[k].status = "logged"
          /\ Len(archive_jobs[k].source_files) > 1

\* The rows the current session appended to a mapping file for a destination.
MappingRowsTo(file, dest_path) ==
    {r \in DOMAIN file : file[r].run = run /\ file[r].dest = dest_path}

\* The one mapping row (job.key, dest_path) of a job that was logged.
OneMappingRow(job, st) ==
    LET rows == MappingRowsTo(mapping_file, DestPath(st.dest, job))
    IN /\ Cardinality(rows) = 1
       /\ \A r \in rows : mapping_file[r].key = job.key

\* C12: outside dry-run, every job that succeeded and was logged has exactly
\* one mapping row (job.key, dest_path); for a sequence it is the row of the
\* virtual tar key.
MappingRowPerJob ==
    ~is_dry_run =>
        /\ \A i \in 1..Len(copy_state) :
              copy_state[i].status = "logged" => OneMappingRow(copy_jobs[i], copy_state[i])
        /\ \A k \in 1..Len(archive_state) :
              archive_state[k].status = "logged"
                  => OneMappingRow(archive_jobs[k], archive_state[k])

\* C13: no step of a dry-run session changes the state log.
DryRunKeepsStateLog == [][is_dry_run => state_file' = state_file]_vars

\* A dry-run session after a real one: it copied and archived in simulation,
\* and the state log holds the rows of the first session only.
DryRunKeepsStateLogWitness ==
    /\ is_dry_run /\ run = 2 /\ main_pc = "done"
    /\ state_file # <<>>
    /\ \A r \in StateRows : state_file[r].run = 1
    /\ \E i \in 1..Len(copy_state) : copy_state[i].status = "logged"
    /\ \E k \in 1..Len(archive_state) : archive_state[k].status = "logged"

\* C14: the mapping rows of a dry-run session are in the dry-run mapping file
\* and none of them is in mapping.csv; a real session appends nothing to the
\* dry-run mapping file.
DryRunMappingRouting ==
    /\ is_dry_run =>
          /\ \A r \in DOMAIN mapping_file : mapping_file[r].run # run
          /\ \A i \in 1..Len(copy_state) :
                copy_state[i].status = "logged" =>
                    \E r \in DOMAIN dry_run_mapping_file :
                        /\ dry_run_mapping_file[r].run = run
                        /\ dry_run_mapping_file[r].key = copy_jobs[i].key
    /\ ~is_dry_run => \A r \in DOMAIN dry_run_mapping_file : dry_run_mapping_file[r].run # run

\* ------------------------------------------------------------------------
\* Properties of the two phases
\* ------------------------------------------------------------------------

\* The rows of a logged job are in the logs: its state rows unless the
\* session is a dry run, and its mapping rows.
RowsWritten(job, st) ==
    \A key \in Range(source_keys_to_log(job)) :
        /\ ~is_dry_run => \E r \in StateRows : state_file[r] = [key |-> key, run |-> run]
        /\ \E r \in DOMAIN mapping_file :
              mapping_file[r] = [key |-> key, dest |-> DestPath(st.dest, job), run |-> run]

\* A job has its terminal result and, when it succeeded, its rows.
Settled(job, st) ==
    /\ st.status \in {"logged", "reaped"}
    /\ st.status = "logged" => RowsWritten(job, st)

Started(st) == st.status # "queued"

\* C15: when an archive job has been started, every copy job of the session
\* has its terminal result and its log rows.
PhaseOrdering ==
    (\E k \in 1..Len(archive_state) : Started(archive_state[k]))
        => \A i \in 1..Len(copy_state) : Settled(copy_jobs[i], copy_state[i])

\* An archive job is in flight after a phase 1 in which one copy job was
\* logged and another failed.
PhaseOrderingWitness ==
    /\ \E k \in 1..Len(archive_state) : archive_state[k].status \in {"running", "placed"}
    /\ \E i, j \in 1..Len(copy_state) :
          copy_state[i].status = "logged" /\ copy_state[j].status = "reaped"

\* C16: at most one archive job is in flight, and when an archive job has
\* been started the archive jobs before it have their terminal results and
\* their log rows.
SerialArchiving ==
    /\ Cardinality(InFlight(archive_state)) <= 1
    /\ \A k \in 1..Len(archive_state) :
          Started(archive_state[k]) =>
              \A j \in 1..(k - 1) : Settled(archive_jobs[j], archive_state[j])

\* The second archive job is in flight and the first one is logged.
SerialArchivingWitness ==
    /\ Len(archive_state) = 2
    /\ archive_state[1].status = "logged"
    /\ archive_state[1].logged = Len(archive_jobs[1].source_files)
    /\ archive_state[2].status \in {"running", "placed"}

\* ------------------------------------------------------------------------
\* Properties of failures
\* ------------------------------------------------------------------------

\* A worker has returned (None, 0, None, None) for some job.
SomeJobFailed ==
    \/ \E i \in 1..Len(copy_state) : copy_state[i].status = "failed"
    \/ \E k \in 1..Len(archive_state) : archive_state[k].status = "failed"

\* Every planned job of both phases has its terminal result and main is done.
AllJobsSettled ==
    /\ main_pc = "done"
    /\ Len(copy_state) = Len(copy_jobs) /\ Len(archive_state) = Len(archive_jobs)
    /\ \A i \in 1..Len(copy_jobs) : Settled(copy_jobs[i], copy_state[i])
    /\ \A k \in 1..Len(archive_jobs) : Settled(archive_jobs[k], archive_state[k])

\* A step in which some job fails.
FailureStep ==
    \/ \E i \in 1..Len(copy_state) :
          copy_state[i].status # "failed" /\ copy_state'[i].status = "failed"
    \/ \E k \in 1..Len(archive_state) :
          archive_state[k].status # "failed" /\ archive_state'[k].status = "failed"

\* C17: a job that fails does not end the session: the step in which it
\* fails leaves main and the other jobs where they were, and in a session
\* that is not interrupted every planned job of both phases then reaches its
\* terminal result.
PerJobErrorsContained ==
    /\ SomeJobFailed ~> AllJobsSettled
    /\ [][FailureStep =>
             /\ main_pc' = main_pc
             /\ \A i \in 1..Len(copy_state) :
                   copy_state'[i].status # "failed" => copy_state'[i] = copy_state[i]
             /\ \A k \in 1..Len(archive_state) :
                   archive_state'[k].status # "failed" => archive_state'[k] = archive_state[k]
       ]_vars

\* A session that ended with a copy job failed for lack of space, a copy
\* job logged after it, and the archive job failed as well.
PerJobErrorsContainedWitness ==
    /\ AllJobsSettled /\ ~is_dry_run
    /\ \E i, j \in 1..Len(copy_state) :
          i < j /\ copy_state[i].status = "reaped" /\ copy_state[j].status = "logged"
    /\ \E k \in 1..Len(archive_state) : archive_state[k].status = "reaped"
    /\ Len(error_log_file) > 1

\* The positions of errors.log where a whole line for key begins: the head
\* of the row directly followed by its tail.
LinesFor(key) ==
    {p \in 1..(Len(error_log_file) - 1) :
        /\ error_log_file[p].part = "head"
        /\ error_log_file[p].row.key = key
        /\ error_log_file[p + 1] = [row |-> error_log_file[p].row, part |-> "tail"]}

\* Every piece of errors.log is half of a whole line, but for the head the
\* holder of file_lock has just written.
LinesWhole ==
    \A p \in 1..Len(error_log_file) :
        IF error_log_file[p].part = "head"
        THEN IF p = Len(error_log_file)
             THEN /\ file_lock # Free
                  /\ JobState(file_lock).status = "writing"
                  /\ Head(error_pending[file_lock]) = [row |-> error_log_file[p].row, part |-> "tail"]
             ELSE error_log_file[p + 1] = [row |-> error_log_file[p].row, part |-> "tail"]
        ELSE p > 1 /\ error_log_file[p - 1] = [row |-> error_log_file[p].row, part |-> "head"]

\* The keys a failed job is reported under.
ErrorKeys(job) == IF job.type = "sequence" THEN Range(job.source_files) ELSE {job.key}

\* C18: a failed file job has exactly one line in errors.log, under its key;
\* a failed sequence job has exactly one line per member, all with the same
\* message; and no line of errors.log is cut by the output of another job.
ErrorLogRows ==
    /\ LinesWhole
    /\ \A j \in LogJobs :
          JobState(j).status \in {"failed", "reaped"} =>
             /\ \A key \in ErrorKeys(PlannedJob(j)) : Cardinality(LinesFor(key)) = 1
             /\ \A key1, key2 \in ErrorKeys(PlannedJob(j)) :
                   \A p \in LinesFor(key1), q \in LinesFor(key2) :
                      error_log_file[p].row.msg = error_log_file[q].row.msg
             /\ PlannedJob(j).type = "sequence" =>
                   Cardinality(ErrorKeys(PlannedJob(j))) = Len(PlannedJob(j).source_files)

\* Two copy jobs failed while both were running, with different messages,
\* and a sequence job failed after them: the session is over.
ErrorLogRowsWitness ==
    /\ main_pc = "done"
    /\ \E i, j \in 1..Len(copy_state) :
          /\ i < j /\ copy_state[i].status = "reaped" /\ copy_state[j].status = "reaped"
          /\ \E p \in LinesFor(copy_jobs[i].key), q \in LinesFor(copy_jobs[j].key) :
                q < p /\ error_log_file[p].row.msg # error_log_file[q].row.msg
    /\ \E k \in 1..Len(archive_state) :
          /\ archive_state[k].status = "reaped"
          /\ Len(archive_jobs[k].source_files) >= MinFiles

\* ------------------------------------------------------------------------
\* Properties of cancellation
\* ------------------------------------------------------------------------

\* KeyboardInterrupt was raised in main's loop and main has not returned.
InterruptObserved == main_pc = "shutdown"

\* C19: once main has been interrupted, no job that no worker had started
\* is started: a future that is queued stays queued.
CancellationStopsDispatch ==
    [][InterruptObserved =>
          /\ \A i \in 1..Len(copy_state) :
                copy_state[i].status = "queued" => copy_state'[i].status = "queued"
          /\ \A k \in 1..Len(archive_state) :
                archive_state[k].status = "queued" => archive_state'[k].status = "queued"
      ]_vars

\* The keys of job are among the state rows of this session.
HasStateRows(job) ==
    \A key \in Range(source_keys_to_log(job)) :
        \E p \in 1..Len(state_file) : state_file[p] = [key |-> key, run |-> run]

\* C20: when a real session has returned after an interrupt, every job whose
\* copy or archive ended well has its state rows, the jobs that were in
\* flight at the interrupt included.
CancellationDurability ==
    (main_pc = "interrupted" /\ ~is_dry_run) =>
        /\ \A i \in 1..Len(copy_state) :
              copy_state[i].status \in {"succeeded", "logged"} => HasStateRows(copy_jobs[i])
        /\ \A k \in 1..Len(archive_state) :
              archive_state[k].status \in {"succeeded", "logged"} => HasStateRows(archive_jobs[k])

\* C21: a copy job whose rsync was ended by the interrupt has a failed
\* result, and neither a state row nor a mapping row of this session.
CancelledCopyFails ==
    \A i \in 1..Len(copy_state) :
        copy_state[i].return_code \in CancelReturnCodes =>
            /\ copy_state[i].status \in {"failed", "reaped"}
            /\ ~HasStateRows(copy_jobs[i])
            /\ \A p \in 1..Len(mapping_file) :
                  ~(mapping_file[p].key = copy_jobs[i].key /\ mapping_file[p].run = run)

\* C22: after an archive job has failed, no tar file, whole or partial, is
\* left at its destination path.
ArchiverCleanup ==
    \A k \in 1..Len(archive_state) :
        archive_state[k].status \in {"failed", "reaped"} => archive_state[k].tar = "none"

\* ------------------------------------------------------------------------
\* Properties of the plan
\* ------------------------------------------------------------------------

\* The jobs of the plan, copy jobs first.
PlannedJobs == copy_jobs \o archive_jobs

\* C23: no two jobs of one plan have the same key.
KeyUniqueness ==
    Planned =>
        \A a, b \in 1..Len(PlannedJobs) : PlannedJobs[a].key = PlannedJobs[b].key => a = b

\* C24: a planning run on the inputs and the state log of the run before
\* yields the same ordered copy-job and archive-job lists.
PlannerDeterminism ==
    [][(main_pc = "start" /\ run > 1 /\ main_pc' # "start") =>
           (copy_jobs' = copy_jobs /\ archive_jobs' = archive_jobs)]_vars

\* ------------------------------------------------------------------------
\* Properties of the start and the end of a session
\* ------------------------------------------------------------------------

\* The rows of a log file written by the current session.
RowsOfRun(file) == {p \in 1..Len(file) : file[p].run = run}

\* C25: when no mount is suitable as the disk manager is created in a real
\* session, the session aborts at once; an aborted session has started no
\* job and has appended no row to the state log or the mapping log.
StartupFailureFatal ==
    /\ [][(main_pc = "planned" /\ ~is_dry_run /\ NoVolumeSuitable(0)) =>
              main_pc' = "aborted"]_vars
    /\ [](main_pc = "aborted" =>
              /\ copy_state = <<>> /\ archive_state = <<>> /\ worker_id_queue = <<>>
              /\ RowsOfRun(state_file) = {} /\ RowsOfRun(mapping_file) = {})

\* A real session with jobs planned finds no suitable mount and aborts; a
\* session before it has left its rows in the logs.
StartupFailureFatalWitness ==
    /\ main_pc = "aborted" /\ ~is_dry_run
    /\ NoVolumeSuitable(0)
    /\ copy_jobs # <<>>
    /\ state_file # <<>>

\* C26: a session ended by an interrupt exits with 130, a session that ran
\* to its end with 0, a session that aborted at startup with 1.
ExitCodes ==
    /\ main_pc = "interrupted" => exit_status(main_pc) = 130
    /\ main_pc = "done" => exit_status(main_pc) = 0
    /\ main_pc = "aborted" => exit_status(main_pc) = 1

\* ------------------------------------------------------------------------
\* Properties of the manifest reader
\* ------------------------------------------------------------------------

\* The lines of the manifest that are malformed: fewer than five columns, or
\* a type with neither 'directory' nor 'file'.
MalformedRows ==
    {i \in 1..Len(manifest) :
        \/ manifest[i].ncols < 5
        \/ ~ContainsDirectory(manifest[i].ftype) /\ ~ContainsFile(manifest[i].ftype)}

\* The lines that are directory rows and not malformed.
DirectoryRows == {i \in 1..Len(manifest) : ContainsDirectory(manifest[i].ftype)} \ MalformedRows

\* C27: the reader puts every row of the manifest in exactly one class: the
\* malformed rows are recorded with their line numbers, the directory rows
\* are counted, all others are emitted, so that lines_total is the sum of
\* the three; a manifest of malformed rows only gives an empty plan.
ManifestClassification ==
    (Planned /\ input_mode = "csv") =>
        /\ stats.lines_total = Len(manifest)
        /\ {stats.malformed_lines[n].line : n \in 1..Len(stats.malformed_lines)} = MalformedRows
        /\ Len(stats.malformed_lines) = Cardinality(MalformedRows)
        /\ stats.lines_ignored_dirs = Cardinality(DirectoryRows)
        /\ Len(Found) = Len(manifest) - Cardinality(MalformedRows) - Cardinality(DirectoryRows)
        /\ stats.lines_total
              = stats.lines_ignored_dirs + Len(stats.malformed_lines) + Len(Found)
        /\ Cardinality(MalformedRows) = Len(manifest) =>
              /\ copy_jobs = <<>> /\ archive_jobs = <<>>
              /\ Len(stats.malformed_lines) = stats.lines_total

\* A manifest with a short row, a short directory row, a row of unknown
\* type, a directory and a file has been read.
ManifestClassificationWitness ==
    /\ Planned /\ input_mode = "csv"
    /\ \E i, j, k \in MalformedRows :
          /\ manifest[i].ncols < 5 /\ ContainsDirectory(manifest[i].ftype)
          /\ manifest[j].ncols < 5 /\ ~ContainsDirectory(manifest[j].ftype)
          /\ manifest[k].ncols >= 5
    /\ DirectoryRows # {}
    /\ Found # <<>>

\* ------------------------------------------------------------------------
\* Properties of the auditor
\* ------------------------------------------------------------------------

\* The mapping files of a session, as the merge finds them.
MappingFiles == <<mapping_file, dry_run_mapping_file>>

\* The (source, destination) rows of a mapping file: all but a header (the
\* one row no session has written).
MappingRows(file) ==
    csv_rows(SelectSeq(file, LAMBDA row : row.run # DryRunHeader.run))

\* C28: the master file of a merge holds the mapping rows of every input
\* file and no other, and the count reported for an input is the number of
\* its mapping rows.
MergeIsUnion ==
    LET merged == handle_merge(MappingFiles)
    IN /\ merged.all_unique_mappings
             = UNION {Range(MappingRows(MappingFiles[i])) : i \in 1..Len(MappingFiles)}
       /\ \A i \in 1..Len(MappingFiles) :
             merged.file_stats[i] = Len(MappingRows(MappingFiles[i]))

\* C29: the manifest of missing files holds rows of the original manifest,
\* one for every path of a listed file that is not in the state file and
\* for no other path.
AnalyzeIsDifference ==
    LET emitted == missing_for_copy(StateKeys, manifest)
    IN /\ emitted \subseteq Range(manifest)
       /\ {PathOf(r) : r \in emitted}
             = {PathOf(manifest[i]) : i \in {j \in 1..Len(manifest) : RowIsListed(manifest[j])}}
                  \ StateKeys

\* ------------------------------------------------------------------------
\* Properties of round_robin under concurrent workers
\* ------------------------------------------------------------------------

\* Every preferred volume is suitable for a job of the given size.
AllPreferredSuitable(size) ==
    \A m \in Range(preferred_pool(max_concurrent_disks)) :
        is_disk_suitable(disks, is_dry_run, m, size)

\* The volume that follows m in the preferred pool, cyclically.
NextInPool(m) ==
    LET pool == preferred_pool(max_concurrent_disks)
        k == CHOOSE i \in 1..Len(pool) : pool[i] = m
    IN pool[(k % Len(pool)) + 1]

\* A step that is a call of get_current_destination.
DestinationCalled == main_pc \in {"ready", "returned"} /\ main_pc' = "returned"

\* C30: workers call get_current_destination one at a time, in the order in
\* which they acquire the manager's lock. Under round_robin, after a call
\* that returned a preferred volume next_disk_index points at the volume
\* that follows it in the pool; a call made while every preferred volume is
\* suitable returns the volume at next_disk_index; so the call that follows
\* a call returns the next volume of the pool, and n consecutive calls
\* return the n volumes of the pool, each once.
RoundRobinDistribution ==
    /\ [][(strategy = "round_robin" /\ main_pc' = "returned"
            /\ dm_result' \in Range(preferred_pool(max_concurrent_disks)))
            => preferred_pool(max_concurrent_disks)[next_disk_index' + 1]
                   = NextInPool(dm_result')]_vars
    /\ [][(strategy = "round_robin" /\ preferred_pool(max_concurrent_disks) # <<>>
            /\ DestinationCalled /\ AllPreferredSuitable(dm_job_size'))
            => dm_result' = preferred_pool(max_concurrent_disks)[next_disk_index + 1]]_vars
    /\ [][(strategy = "round_robin" /\ Returned
            /\ dm_result \in Range(preferred_pool(max_concurrent_disks))
            /\ DestinationCalled /\ AllPreferredSuitable(dm_job_size'))
            => dm_result' = NextInPool(dm_result)]_vars

\* Three preferred volumes with room for the job: the third has been
\* returned and next_disk_index is back at the first.
RoundRobinDistributionWitness ==
    /\ Returned /\ strategy = "round_robin" /\ ~is_dry_run
    /\ max_concurrent_disks = 3
    /\ disks = DisksOf(RoomyDisk, RoomyDisk, RoomyDisk)
    /\ AllPreferredSuitable(dm_job_size)
    /\ dm_result = "C"
    /\ next_disk_index = 0

\* ------------------------------------------------------------------------
\* Properties of next_disk_index
\* ------------------------------------------------------------------------

\* The position of m in the preferred pool, counted from 0.
IndexInPool(m) ==
    (CHOOSE i \in 1..Len(preferred_pool(max_concurrent_disks)) :
         preferred_pool(max_concurrent_disks)[i] = m) - 1

\* C31: under round_robin a call that returns a preferred volume sets
\* next_disk_index to the index of that volume plus one, modulo the size of
\* the preferred pool; a call that returns a fallback volume or finds no
\* volume leaves next_disk_index as it was; and next_disk_index is always at
\* least 0 and below max(1, size of the preferred pool), also when
\* max_concurrent_disks exceeds the number of mount points.
RoundRobinIndexDiscipline ==
    /\ [](0 <= next_disk_index
          /\ next_disk_index < Max(1, Len(preferred_pool(max_concurrent_disks))))
    /\ [][(strategy = "round_robin" /\ DestinationCalled
            /\ dm_result' \in Range(preferred_pool(max_concurrent_disks)))
            => next_disk_index'
                 = (IndexInPool(dm_result') + 1) % Len(preferred_pool(max_concurrent_disks))]_vars
    /\ [][(strategy = "round_robin" /\ DestinationCalled
            /\ dm_result' \notin Range(preferred_pool(max_concurrent_disks)))
            => next_disk_index' = next_disk_index]_vars

\* max_concurrent_disks exceeds the number of mount points; a call was served
\* by the last mount and next_disk_index is back at 0.
RoundRobinIndexDisciplineWitness ==
    /\ Returned /\ strategy = "round_robin" /\ ~is_dry_run
    /\ max_concurrent_disks = Len(mount_points) + 1
    /\ dm_result = "C"
    /\ next_disk_index = 0

\* ------------------------------------------------------------------------
\* Properties of the worker IDs
\* ------------------------------------------------------------------------

\* The workers of phase 1 exist.
InPhase1 == main_pc \in {"phase1", "shutdown"}

\* The IDs held by the workers whose job is in flight.
HeldIds == {copy_state[i].wid : i \in InFlight(copy_state)}

\* C32: in phase 1 the IDs held by in-flight workers are pairwise distinct
\* integers of 1..threads; the held IDs and worker_id_queue together are
\* exactly 1..threads, each once; and a worker whose job ends, well or not,
\* appends its ID to worker_id_queue.
WorkerIdFreeList ==
    /\ [](InPhase1 =>
            /\ HeldIds \subseteq 1..Threads
            /\ \A i, j \in InFlight(copy_state) :
                   copy_state[i].wid = copy_state[j].wid => i = j
            /\ HeldIds \cup Range(worker_id_queue) = 1..Threads
            /\ Cardinality(HeldIds) + Len(worker_id_queue) = Threads)
    /\ [][InPhase1 =>
            \A i \in InFlight(copy_state) :
                i \notin InFlight(copy_state')
                    => worker_id_queue' = Append(worker_id_queue, copy_state[i].wid)]_vars

\* The first job failed and its ID is free again while the second job still
\* holds the other ID.
WorkerIdFreeListWitness ==
    /\ main_pc = "phase1"
    /\ Len(copy_state) = 2
    /\ copy_state[1].status = "failed" /\ copy_state[1].dest # NoDisk
    /\ copy_state[2].status = "placed" /\ copy_state[2].wid = 2
    /\ worker_id_queue = <<1>>

\* ------------------------------------------------------------------------
\* Properties of the order of the log rows
\* ------------------------------------------------------------------------

\* The job's copy or archive has ended well.
CopyDone(j) ==
    JobState(j).status \in {"succeeded", "state_appended", "mapping_appended", "logged"}

\* The state file has a row of this session for the key.
HasStateRow(key) == \E p \in 1..Len(state_file) : state_file[p] = [key |-> key, run |-> run]

\* C33: outside a dry run a state row is appended only for a key of a job
\* whose copy or archive has ended well; when a mapping row is appended the
\* state row of its key is already in the state file; hence whenever
\* file_lock is free every key with a mapping row has a state row.
LogOrdering ==
    /\ [][(~is_dry_run /\ state_file' # state_file) =>
            \E j \in LogJobs :
                /\ CopyDone(j)
                /\ state_file'[Len(state_file')].key \in Range(source_keys_to_log(PlannedJob(j)))]_vars
    /\ [][(~is_dry_run /\ mapping_file' # mapping_file) =>
            HasStateRow(mapping_file'[Len(mapping_file')].key)]_vars
    /\ []((~is_dry_run /\ file_lock = Free) =>
            \A p \in 1..Len(mapping_file) : HasStateRow(mapping_file[p].key))

\* ------------------------------------------------------------------------
\* Properties of the order in which jobs start
\* ------------------------------------------------------------------------

\* The sizes of the jobs do not increase along the list.
LargestFirstList(jobs) ==
    \A i, j \in 1..Len(jobs) : i < j => jobs[i].size >= jobs[j].size

\* No job of the phase has started while a strictly larger one is waiting.
LargestFirstStart(jobs, st) ==
    \A i, j \in 1..Len(st) :
        (st[i].status # "queued" /\ st[j].status = "queued") => jobs[j].size <= jobs[i].size

\* C34: copy_jobs and archive_jobs are each ordered by non-increasing size,
\* and within a phase no job has been started while a strictly larger job
\* of the phase has not.
LargestFirst ==
    /\ LargestFirstList(copy_jobs)
    /\ LargestFirstList(archive_jobs)
    /\ LargestFirstStart(copy_jobs, copy_state)
    /\ LargestFirstStart(archive_jobs, archive_state)

\* The larger of two copy jobs is running and the smaller one still waits.
LargestFirstWitness ==
    /\ main_pc = "phase1"
    /\ Len(copy_state) = 2
    /\ copy_jobs[1].size > copy_jobs[2].size
    /\ copy_state[1].status = "running"
    /\ copy_state[2].status = "queued"

\* ------------------------------------------------------------------------
\* Properties of the promotion boundaries
\* ------------------------------------------------------------------------

\* floor(0.05 * expected) for the group.
ToleratedMissing(G) == (ExpectedFrames(G) * 5) \div 100

\* C35: a contiguous group of exactly min_files_for_sequence frames is
\* promoted and a contiguous group of one file fewer is not; a group of at
\* least min_files_for_sequence files with exactly floor(0.05 * expected)
\* missing frames is promoted and one with one more missing frame is not.
PromotionBoundaries ==
    Planned => \A d \in Range(DirOrder(Found)) : \A G \in GroupsOfDir(d) :
        /\ (Len(G) = MinFiles /\ MissingFrames(G) = 0) => EmittedFor(d, G)
        /\ (Len(G) = MinFiles - 1 /\ MissingFrames(G) = 0) => ~EmittedFor(d, G)
        /\ (Len(G) >= MinFiles /\ MissingFrames(G) = ToleratedMissing(G))
               => EmittedFor(d, G)
        /\ (Len(G) >= MinFiles /\ MissingFrames(G) = ToleratedMissing(G) + 1)
               => ~EmittedFor(d, G)

\* ------------------------------------------------------------------------
\* Properties of the planning summary
\* ------------------------------------------------------------------------

\* The rows the planner works on.
PlannerRows == IF input_mode = "csv" THEN manifest ELSE Found

\* The planned jobs that were removed because their key is in the state log.
RemovedJobs ==
    Cardinality(copy_jobs_all(PlannerRows, {})) + Len(archive_jobs_to_process(PlannerRows, {}))
        - (Len(copy_jobs) + Len(archive_jobs))

\* C36: the number of already processed items shown in the summary is the
\* number of planned jobs removed because their key was in the state log;
\* it is 0 when the state log is empty, also with sequence jobs in the plan.
SkippedCount ==
    main_pc = "planned" => processed_count(copy_jobs, archive_jobs, stats) = RemovedJobs

\* ------------------------------------------------------------------------
\* Properties of the end of a session that is not interrupted
\* ------------------------------------------------------------------------

\* The job has its terminal result: logged, or failed and dropped by main.
HasResult(st) == st.status \in {"logged", "reaped"}

\* C37: in a session that is not interrupted, with threads that keep running
\* and copies and archives that end, phase 1 ends and phase 2 ends and main
\* returns with every planned job at its terminal result; a job that has its
\* result keeps it; every copy job waiting for a worker is started with a
\* worker ID, and a thread that is free to start a job finds a free ID.
SessionTermination ==
    /\ (main_pc = "phase1") ~> (main_pc \in {"phase2", "done"})
    /\ (main_pc = "phase2") ~> (main_pc = "done")
    /\ [](main_pc = "done" => Terminal(copy_state) /\ Terminal(archive_state))
    /\ [][/\ \A i \in 1..Len(copy_state) :
                HasResult(copy_state[i]) => copy_state'[i] = copy_state[i]
          /\ \A k \in 1..Len(archive_state) :
                HasResult(archive_state[k]) => archive_state'[k] = archive_state[k]]_vars
    /\ (\E i \in 1..Len(copy_state) : copy_state[i].status = "queued")
          ~> (\A i \in 1..Len(copy_state) :
                  copy_state[i].status # "queued"
                  /\ (copy_state[i].status \in {"running", "placed"}
                         => copy_state[i].wid \in 1..Threads))
    /\ []((main_pc = "phase1" /\ Cardinality(InFlight(copy_state)) < Threads)
            => worker_id_queue # <<>>)

\* main has returned after both phases: a copy job failed and was dropped,
\* the other was logged, the archive job was logged, and every worker ID is
\* back in worker_id_queue.
SessionTerminationWitness ==
    /\ main_pc = "done"
    /\ Len(copy_state) = 2 /\ Len(archive_state) >= 1
    /\ copy_state[1].status = "reaped" /\ copy_state[2].status = "logged"
    /\ \A k \in 1..Len(archive_state) : archive_state[k].status = "logged"
    /\ Len(worker_id_queue) = Threads

\* ------------------------------------------------------------------------
\* Properties of what the state log says was copied
\* ------------------------------------------------------------------------

\* The key is that of a copy job whose copy tool exited with code 0.
CopiedFile(key) ==
    \E i \in 1..Len(copy_jobs) :
        /\ copy_jobs[i].key = key
        /\ copy_state[i].status = "logged"
        /\ copy_state[i].return_code = 0

\* The key is that of a source file in the tar of an archive job.
ArchivedMember(key) ==
    \E k \in 1..Len(archive_jobs) :
        key \in TarMembers(archive_jobs[k], archive_state[k].tar)

\* C38: outside a dry run every key the session appended to the state log
\* is the key of a copy job whose copy tool exited with code 0, or a source
\* file that was added to the tar of its sequence.
LoggedMeansCopied ==
    (~is_dry_run /\ main_pc \in {"phase1", "phase2", "shutdown", "done", "interrupted"}) =>
        \A p \in 1..Len(state_file) :
            state_file[p].run = run =>
                CopiedFile(state_file[p].key) \/ ArchivedMember(state_file[p].key)

\* ------------------------------------------------------------------------
\* Properties of dest_path
\* ------------------------------------------------------------------------

\* The path lies in the directory: the directory's components begin it.
LiesInside(p, dir) ==
    /\ p.absolute
    /\ Len(p.comps) >= Len(dir.comps)
    /\ SubSeq(p.comps, 1, Len(dir.comps)) = dir.comps

\* C39: the dest_path derived for a job lies inside the mount chosen for
\* it, for every key and every source_root, also for keys whose string
\* begins with source_root but which are not under it.
DestinationContainment ==
    last_dest_path.called =>
        LiesInside(last_dest_path.path, MountPath(last_dest_path.mount))

====
